---- MODULE Spec2Model ----
(***************************************************************************)
(* OTP issuance (send-otp) and verification (verify-otp) edge functions of *)
(* rainwise-ai, with the two tables they share (otp_codes,                 *)
(* otp_rate_limits), the Delivery collaborator (Resend) and the            *)
(* Account/Session collaborator (Supabase Auth admin API).                 *)
(*                                                                         *)
(* Every handler invocation is a process slot h \in Handlers.  A handler   *)
(* takes one step per awaited store or collaborator call; the synchronous  *)
(* code between two awaits belongs to the step that follows the first      *)
(* await.  Time is in milliseconds, as in Date.getTime().                  *)
(*                                                                         *)
(* Store calls are taken to succeed, except the two whose error the        *)
(* send-otp handler turns into a throw (the rate-limit read and the        *)
(* otp_codes insert) and the fetch of verify-otp, which answers 400 on any *)
(* error.  The collaborators may fail wherever the code tests their error; *)
(* account resolution takes one step per awaited call.  Accounts are also  *)
(* made by the sign-up pages, and the periodic sweep                       *)
(* public.cleanup_expired_otps() deletes old rows, one step per DELETE     *)
(* statement, both at any moment, between any two steps of the handlers.   *)
(* A request body is a JSON object.                                        *)
(*                                                                         *)
(* The variable history is no part of the program: it records, beside the  *)
(* program, what has been asked of it, and the properties are stated       *)
(* against it.  The counters issued and verified count the well-formed     *)
(* requests that a specification has let in.                               *)
(*                                                                         *)
(* SeqSpec, ReissueSpec, RateSpec and InputSpec handle requests one after  *)
(* another in one handler slot; Spec interleaves the handlers at every     *)
(* await.                                                                  *)
(***************************************************************************)
EXTENDS Integers, Sequences, FiniteSets, TLC

VARIABLES clock, otp_codes, otp_rate_limits, users, outbox, handlers, issued,
          verified, history, draw, cleanup

vars == <<clock, otp_codes, otp_rate_limits, users, outbox, handlers, issued,
          verified, history, draw, cleanup>>

counters == <<issued, verified>>

store == <<otp_codes, otp_rate_limits, users, outbox>>

----------------------------------------------------------------------------
(* Program constants *)

OTP_EXPIRY_MINUTES == 5
MAX_REQUESTS_PER_WINDOW == 3
RATE_LIMIT_WINDOW_MINUTES == 10
MAX_VERIFICATION_ATTEMPTS == 5
MAX_EMAIL_LENGTH == 255
OTP_DIGITS == 6
Radix == 65536

OtpTtlMs == OTP_EXPIRY_MINUTES * 60 * 1000
WindowMs == RATE_LIMIT_WINDOW_MINUTES * 60 * 1000

(* Bounds of the model *)

NumHandlers == 2
MaxSlot == 2
LateSlot == 15
MaxJitter == 1
MaxIssues == 2
MaxReissueIssues == 3
MaxRateIssues == 6
MaxRateVerifies == 1
MaxInputIssues == 1
MaxInputVerifies == 2
MaxTwinIssues == 2
MaxTwinVerifies == 2
MaxPairIssues == 2
MaxPairVerifies == 1
MaxRaceSlot == 0
MaxRaceIssues == 2
MaxRaceVerifies == 2

Handlers == 1..NumHandlers

\* An instant of NOW() in public.cleanup_expired_otps() by which the rows of
\* the instants before the last have passed both ages of the cleanup.
LateInstant == LateSlot * OtpTtlMs

\* The instants new Date() may return: the first MaxJitter milliseconds, then
\* the multiples of the code TTL (half a rate-limit window).  A handler may
\* also read the instant that was read last, so that the handlers go on at
\* LateInstant once the cleanup has run there.
Instants == (0..MaxJitter) \cup {k * OtpTtlMs : k \in 1..MaxSlot}

\* The instants of the specification that fills rate-limit windows: the
\* first MaxJitter milliseconds and the end of the window opened at 0.
RateInstants == (0..MaxJitter) \cup {WindowMs}

\* The instants of the interleaved handlers: whole rate-limit windows.  The
\* later instants these handlers read are those of the cleanup.
RaceInstants == {k * WindowMs : k \in 0..MaxRaceSlot}

----------------------------------------------------------------------------
(* Strings are sequences of one-character strings. *)

\* The characters of \s and of String.prototype.trim that a string of this
\* module can hold; VerticalTab is the one character U+000B.
VerticalTab == ""
Whitespace == {" ", "\t", "\n", "\r", "\f", VerticalTab}
Digits == {"0", "1", "2", "3", "4", "5", "6", "7", "8", "9"}
DigitSeq == <<"0", "1", "2", "3", "4", "5", "6", "7", "8", "9">>
UpperSeq == <<"A", "B", "C", "D", "E", "F", "G", "H", "I", "J", "K", "L", "M",
              "N", "O", "P", "Q", "R", "S", "T", "U", "V", "W", "X", "Y", "Z">>
LowerSeq == <<"a", "b", "c", "d", "e", "f", "g", "h", "i", "j", "k", "l", "m",
              "n", "o", "p", "q", "r", "s", "t", "u", "v", "w", "x", "y", "z">>

\* String.prototype.toLowerCase, on one character and on a string.
LowerChar(c) ==
    IF \E i \in 1..26 : UpperSeq[i] = c
    THEN LowerSeq[CHOOSE i \in 1..26 : UpperSeq[i] = c]
    ELSE c

toLowerCase(s) == [i \in 1..Len(s) |-> LowerChar(s[i])]

\* String.prototype.trim.
RECURSIVE trimStart(_)
trimStart(s) ==
    IF s # <<>> /\ Head(s) \in Whitespace THEN trimStart(Tail(s)) ELSE s

RECURSIVE trimEnd(_)
trimEnd(s) ==
    IF s # <<>> /\ s[Len(s)] \in Whitespace
    THEN trimEnd(SubSeq(s, 1, Len(s) - 1))
    ELSE s

trim(s) == trimEnd(trimStart(s))

\* /^[^\s@]+@[^\s@]+\.[^\s@]+$/ : [^\s@] admits the dot, so the string has
\* exactly one "@", no whitespace, a character before the "@" and, after it,
\* a dot with a character on each side.
emailRegex(s) ==
    \E i \in 1..Len(s) :
        /\ s[i] = "@"
        /\ i >= 2
        /\ \A k \in 1..Len(s) : k # i => s[k] \notin (Whitespace \cup {"@"})
        /\ \E j \in (i + 2)..(Len(s) - 1) : s[j] = "."

isValidEmail(email) == emailRegex(email) /\ Len(email) <= MAX_EMAIL_LENGTH

\* /^\d{6}/, the pattern without its end anchor.
isValidOTPPrefixBug(otp) ==
    /\ Len(otp) >= OTP_DIGITS
    /\ \A i \in 1..OTP_DIGITS : otp[i] \in Digits

\* /^\d{6}$/
isValidOTP(otp) == Len(otp) = OTP_DIGITS /\ \A i \in 1..Len(otp) : otp[i] \in Digits

\* String(n) for a natural number n.
RECURSIVE String(_)
String(n) ==
    IF n < 10 THEN <<DigitSeq[n + 1]>>
    ELSE Append(String(n \div 10), DigitSeq[(n % 10) + 1])

\* A Uint32 is held as two 16-bit halves, hi * 2^16 + lo: the upper half of
\* the Uint32 values is past the integers TLC computes with.
Uint32(hi, lo) == [hi |-> hi, lo |-> lo]

ToUint32(n) == Uint32(n \div Radix, n % Radix)

IsUint32(x) == x.hi \in 0..(Radix - 1) /\ x.lo \in 0..(Radix - 1)

\* x % m for a Uint32 x and 0 < m < 2^23, with hi shifted by 8 bits twice.
Uint32Mod(x, m) ==
    LET high == ((((x.hi % m) * 256) % m) * 256) % m
    IN  (high + x.lo) % m

\* x + n for a Uint32 x and 0 <= n < 2^31; the sum is no Uint32 if it is
\* past 2^32 - 1.
Uint32Add(x, n) ==
    LET lo == x.lo + (n % Radix)
    IN  Uint32(x.hi + (n \div Radix) + (lo \div Radix), lo % Radix)

\* generateOTP without the 100000.
generateOTPNoOffset(x) == String(Uint32Mod(x, 900000))

\* generateOTP with array[0] = x, a Uint32.
generateOTP(x) == String(100000 + Uint32Mod(x, 900000))

\* hashOTP: the SHA-256 hex digest, kept symbolic.  A digest is a value of
\* its own kind, equal to another digest exactly when the hashed strings are
\* equal (no collision among the strings of the model).
hashOTPPlain(otp) == [type |-> "string", value |-> otp]

hashOTP(otp) == [sha256 |-> otp]

\* Math.ceil(a / b) for b > 0.
ceilDiv(a, b) == IF a >= 0 THEN (a + b - 1) \div b ELSE -((-a) \div b)

----------------------------------------------------------------------------
(* Request bodies: JSON values *)

Str(s) == [type |-> "string", value |-> s]
Num(n) == [type |-> "number", value |-> n]
Undefined == [type |-> "undefined"]
JsonNull == [type |-> "null"]

\* !v
falsy(v) ==
    \/ v.type \in {"undefined", "null"}
    \/ v.type = "string" /\ v.value = <<>>
    \/ v.type = "number" /\ v.value = 0

\* email?.substring(0, 3) throws a TypeError when email is neither nullish
\* nor a string: the optional chain guards the receiver, not the call.
substringThrows(v) == v.type \notin {"undefined", "null", "string"}

EmailA == <<"a", "@", "b", ".", "c">>
EmailAUpper == <<"A", "@", "b", ".", "c">>
EmailB == <<"b", "@", "b", ".", "c">>
LongEmail == [i \in 1..(MAX_EMAIL_LENGTH + 1) |->
                 IF i = 2 THEN "@" ELSE IF i = 4 THEN "." ELSE "a"]

WellFormedEmails == {Str(EmailA), Str(EmailAUpper), Str(EmailB)}

MalformedEmails ==
    { Str(<<"n", "o", "t", "-", "a", "n", "-", "e", "m", "a", "i", "l">>),
      Str(<<"a", "@", "b">>),
      Str(<<" ", "a", "@", "b", ".", "c">>),
      Str(<<"a", "@", "b", ".", "c", "\n">>),
      Str(<<"a", "@", "b", ".", "c", VerticalTab>>),
      Str(<<"a", "@", "@", "b", ".", "c">>),
      Str(LongEmail),
      Str(<<>>),
      Num(7),
      JsonNull,
      Undefined }

EmailInputs == WellFormedEmails \cup MalformedEmails

\* The values of array[0] that the state machines draw for
\* crypto.getRandomValues.
OtpRandoms == {ToUint32(0), ToUint32(899999)}

\* A well-formed code that generateOTP never returns.
NeverIssued == <<"0", "0", "0", "0", "0", "0">>

WellFormedOtps == {Str(generateOTP(x)) : x \in OtpRandoms} \cup {Str(NeverIssued)}

MalformedOtps ==
    { Str(<<"1", "2", "a", "4", "5">>),
      Str(<<"1", "2", "3", "4", "5", "6", "7">>),
      Str(<<"1", "2", "3", "4", "5", "a">>),
      Str(<<>>),
      Num(123456),
      Undefined }

OtpInputs == WellFormedOtps \cup MalformedOtps

\* The requests the state machines draw: one identifier, a string that is no
\* email and an email that is no string; the two codes generateOTP draws, and
\* a string that is no code.
CoreEmails ==
    { Str(EmailA),
      Str(<<"n", "o", "t", "-", "a", "n", "-", "e", "m", "a", "i", "l">>), Num(7) }

CoreOtps ==
    {Str(generateOTP(x)) : x \in OtpRandoms} \cup {Str(<<"1", "2", "a", "4", "5">>)}

\* Where the codes do not matter, the handlers draw one; the wrong code is one
\* never issued.
RaceRandoms == {ToUint32(0)}

RaceOtps == {Str(generateOTP(x)) : x \in RaceRandoms} \cup {Str(NeverIssued)}

\* Where the form of the requests does not matter, they are well-formed.
RaceEmails == {Str(EmailA)}

normalize(email) == trim(toLowerCase(email))

Identifiers == {normalize(v.value) : v \in WellFormedEmails}

----------------------------------------------------------------------------
(* State *)

Null == [exists |-> FALSE]

\* A handler slot: the request it was given (req), its local variables, the
\* response it has built (status, body), what the Delivery collaborator
\* answered (emailResponse), and the codes its invalidating update has retired
\* (invalidated, kept for the history only).
Idle ==
    [ pc |-> "idle", fn |-> "none", req |-> Null, email |-> <<>>, otp |-> <<>>,
      now |-> -1, rateLimit |-> Null, rateLimitError |-> FALSE,
      rlOp |-> "none", otpRecord |-> Null, fetchError |-> "none",
      branch |-> "none", userId |-> Null, status |-> 0, body |-> Null,
      emailResponse |-> "none", invalidated |-> {}, world |-> "none" ]

\* What has happened to an identifier, recorded beside the program: the
\* rate-limit window that its allowed issue requests have opened since a
\* verification last succeeded, with their number; the code inserted last, if
\* no issue request has come since, with the verify requests that followed
\* it; the plaintexts of the codes that its issue requests answered 200 have
\* retired; the plaintext inserted last, whatever has come since, and
\* whether a verify request has lost it; the plaintexts lost; whether
\* two of its send-otp requests have ever been at work at the same time;
\* whether an update of its rate-limit row, made by a request of the window,
\* found the row deleted (unwritten).
NoHistory ==
    [ window |-> [e \in Identifiers |-> Null],
      overlapped |-> [e \in Identifiers |-> FALSE],
      epoch |-> [e \in Identifiers |-> Null],
      superseded |-> [e \in Identifiers |-> {}],
      latest |-> [e \in Identifiers |-> Null],
      lost |-> [e \in Identifiers |-> {}],
      quota |-> [e \in Identifiers |-> Null],
      allowed |-> [e \in Identifiers |-> <<>>],
      unwritten |-> [e \in Identifiers |-> FALSE],
      anon |-> Null ]

Init ==
    /\ clock = 0
    /\ otp_codes = <<>>
    /\ otp_rate_limits = [e \in Identifiers |-> Null]
    /\ users = {}
    /\ outbox = [count |-> 0, last |-> Null]
    /\ handlers = [h \in Handlers |-> Idle]
    /\ issued = 0
    /\ verified = 0
    /\ history = NoHistory
    /\ draw = Null
    /\ cleanup = Null

\* new Response(JSON.stringify(body), { status })
Response(handler, status, body) ==
    [handler EXCEPT !.pc = "done", !.status = status, !.body = body]

\* A finished handler hands its response over before anything else goes on:
\* the handler has no store operation left, so no behaviour of the tables is
\* lost by it.
Delivered == \A g \in Handlers : handlers[g].pc # "done"

\* Handler h is at pc and may take its step.
At(h, pc) == handlers[h].pc = pc /\ Delivered

\* The ids of the rows that some handler has fetched and still holds.
HeldIds(hs) == {hs[h].otpRecord.id : h \in {g \in Handlers : hs[g].otpRecord # Null}}

\* gen_random_uuid(): an id that no row in reach and no handler carries.
FreshId(codes, hs) ==
    LET taken == {codes[i].id : i \in 1..Len(codes)} \cup HeldIds(hs)
    IN  CHOOSE id \in 1..(Cardinality(taken) + 1) : id \notin taken

\* The rows that a later step can still read or write: every select filters
\* on used = false and every update goes by used = false or by the id of a
\* fetched row, so a used row that no handler holds is out of reach for good.
RECURSIVE InReach(_, _)
InReach(codes, hs) ==
    IF codes = <<>> THEN <<>>
    ELSE IF Head(codes).used /\ Head(codes).id \notin HeldIds(hs)
    THEN InReach(Tail(codes), hs)
    ELSE <<Head(codes)>> \o InReach(Tail(codes), hs)

----------------------------------------------------------------------------
(* send-otp *)

SendError == [error |-> "An error occurred. Please try again."]

InvalidEmailBody == [error |-> "Please provide a valid email address"]

\* req.json(), the log line and the email check.
SendValidateResult(handler, email) ==
    LET h0 == [handler EXCEPT !.fn = "send-otp",
                              !.req = [email |-> email, otp |-> Undefined]]
    IN  IF substringThrows(email)
        THEN Response(h0, 500, SendError)
        ELSE IF falsy(email) \/ email.type # "string" \/ ~isValidEmail(email.value)
        THEN Response(h0, 400, InvalidEmailBody)
        ELSE [h0 EXCEPT !.pc = "s_rl_fetch", !.email = normalize(email.value)]

\* The history of an identifier when a well-formed issue request arrives.
NoteArrived(hist, e, hs) ==
    [hist EXCEPT
        !.epoch[e] = Null,
        !.overlapped[e] =
            @ \/ \E g \in Handlers : hs[g].fn = "send-otp" /\ hs[g].email = e]

\* The rows of an identifier.
RowsOf(codes, e) == SelectSeq(codes, LAMBDA row : row.email = e)

\* The world a well-formed issue request arrives in, noted where issue
\* requests are compared across worlds: the identifier has no row in
\* otp_codes or otp_rate_limits and has no account ("anon"), or has no row
\* and has an account ("known"); "none" if it has a row.
WorldOf(e) ==
    IF otp_rate_limits[e] # Null \/ RowsOf(otp_codes, e) # <<>> THEN "none"
    ELSE IF e \in users THEN "known" ELSE "anon"

\* A send-otp request arrives.  The specification lets cap.issues well-formed
\* requests in.
SendValidate(h, email, cap) ==
    /\ At(h, "idle")
    /\ LET next == SendValidateResult(handlers[h], email) IN
        /\ next.pc # "done" => issued < cap.issues
        /\ handlers' = [handlers EXCEPT ![h] =
                           IF next.pc # "done" /\ cap.twin
                           THEN [next EXCEPT !.world = WorldOf(next.email)]
                           ELSE next]
        /\ issued' = IF next.pc = "done" THEN issued ELSE issued + 1
        /\ history' = IF next.pc = "done" THEN history
                      ELSE NoteArrived(history, next.email, handlers)
    /\ UNCHANGED <<clock, store, verified, draw, cleanup>>

\* The read with its error taken for a missing row.
FetchRateLimitFailOpen(handler, row, rateLimitError) ==
    [handler EXCEPT !.pc = "s_rl_check",
                    !.rateLimit = IF rateLimitError THEN Null ELSE row,
                    !.rateLimitError = rateLimitError]

\* The handler after the read of its rate-limit row: with the row (none on
\* PGRST116), or answered by the catch block after the throw.
FetchRateLimitResult(handler, row, rateLimitError) ==
    IF rateLimitError
    THEN Response([handler EXCEPT !.rateLimitError = TRUE], 500, SendError)
    ELSE [handler EXCEPT !.pc = "s_rl_check", !.rateLimit = row]

\* select * from otp_rate_limits where email = normalizedEmail; an error
\* other than PGRST116 (no row) is thrown.
SendFetchRateLimit(h, rateLimitError) ==
    /\ At(h, "s_rl_fetch")
    /\ handlers' = [handlers EXCEPT ![h] =
          FetchRateLimitResult(@, otp_rate_limits[handlers[h].email],
                               rateLimitError)]
    /\ UNCHANGED <<clock, store, counters, history, draw, cleanup>>

\* Math.ceil((resetTime - now) / 1000)
waitSeconds(firstRequestTime, now) ==
    ceilDiv((firstRequestTime + WindowMs) - now, 1000)

ThrottledBody(firstRequestTime, now) ==
    [ error |-> <<"Too many OTP requests. Please wait ",
                  ceilDiv(waitSeconds(firstRequestTime, now), 60), " minutes.">>,
      retryAfter |-> waitSeconds(firstRequestTime, now) ]

\* firstRequestTime > windowStart
inWindow(firstRequestTime, now) == firstRequestTime > now - WindowMs

\* The rate-limit check refusing only past the cap.
CheckRateLimitPastCap(handler, now) ==
    LET rateLimit == handler.rateLimit
        h1 == [handler EXCEPT !.now = now, !.pc = "s_rl_write"]
    IN  IF rateLimit # Null
        THEN IF inWindow(rateLimit.first_request_at, now)
             THEN IF rateLimit.request_count > MAX_REQUESTS_PER_WINDOW
                  THEN Response([handler EXCEPT !.now = now], 429,
                                ThrottledBody(rateLimit.first_request_at, now))
                  ELSE [h1 EXCEPT !.rlOp = "increment"]
             ELSE [h1 EXCEPT !.rlOp = "reset"]
        ELSE [h1 EXCEPT !.rlOp = "insert"]

\* The branch the rate-limit check takes with now = new Date().
CheckRateLimit(handler, now) ==
    LET rateLimit == handler.rateLimit
        h1 == [handler EXCEPT !.now = now, !.pc = "s_rl_write"]
    IN  IF rateLimit # Null
        THEN IF inWindow(rateLimit.first_request_at, now)
             THEN IF rateLimit.request_count >= MAX_REQUESTS_PER_WINDOW
                  THEN Response([handler EXCEPT !.now = now], 429,
                                ThrottledBody(rateLimit.first_request_at, now))
                  ELSE [h1 EXCEPT !.rlOp = "increment"]
             ELSE [h1 EXCEPT !.rlOp = "reset"]
        ELSE [h1 EXCEPT !.rlOp = "insert"]

\* The window of an identifier after an issue request is allowed at now: a
\* window lasts RATE_LIMIT_WINDOW_MINUTES from the request that opens it.
NoteAllowed(window, now) ==
    IF window = Null \/ now >= window.opened + WindowMs
    THEN [opened |-> now, requests |-> 1]
    ELSE [window EXCEPT !.requests = @ + 1]

\* The quota of an identifier after one more issue request has come to the
\* rate-limit check: requests are counted from the last successful
\* verification, up to one past MAX_REQUESTS_PER_WINDOW.
NoteAsked(quota) ==
    IF quota = Null \/ quota.asked > MAX_REQUESTS_PER_WINDOW THEN quota
    ELSE [quota EXCEPT !.asked = @ + 1]

SendCheckRateLimit(h, now) ==
    /\ At(h, "s_rl_check")
    /\ now >= clock
    /\ clock' = now
    /\ LET next == CheckRateLimit(handlers[h], now) IN
        /\ handlers' = [handlers EXCEPT ![h] = next]
        /\ history' =
              [history EXCEPT
                  !.window[next.email] =
                      IF next.pc = "done" THEN @ ELSE NoteAllowed(@, now),
                  !.unwritten[next.email] =
                      IF next.pc # "done"
                            /\ NoteAllowed(history.window[next.email], now).requests = 1
                      THEN FALSE ELSE @,
                  !.quota[next.email] = NoteAsked(@)]
    /\ UNCHANGED <<store, counters, draw, cleanup>>

\* The update or insert the check chose.  An update of a row that has been
\* deleted meanwhile changes nothing; an insert beside an existing row violates
\* the unique index on email and changes nothing (the error is not looked at).
WriteRateLimit(row, handler) ==
    CASE handler.rlOp = "increment" ->
           IF row = Null THEN row
           ELSE [row EXCEPT !.request_count = handler.rateLimit.request_count + 1,
                            !.last_request_at = handler.now]
      [] handler.rlOp = "reset" ->
           IF row = Null THEN row
           ELSE [row EXCEPT !.request_count = 1,
                            !.first_request_at = handler.now,
                            !.last_request_at = handler.now]
      [] handler.rlOp = "insert" ->
           IF row # Null THEN row
           ELSE [ request_count |-> 1, first_request_at |-> handler.now,
                  last_request_at |-> handler.now ]

\* The allowed issue requests of an identifier since its last successful
\* verification, the last MAX_REQUESTS_PER_WINDOW + 1 of them: when each
\* was made and the first_request_at its write left in the row (-1 if the
\* write left no row).
NoteWritten(log, handler, row) ==
    LET entry == [ at |-> handler.now,
                   first |-> IF row = Null THEN -1 ELSE row.first_request_at ]
        all == Append(log, entry)
    IN  IF Len(all) > MAX_REQUESTS_PER_WINDOW + 1 THEN Tail(all) ELSE all

SendWriteRateLimit(h) ==
    /\ At(h, "s_rl_write")
    /\ otp_rate_limits' = [otp_rate_limits EXCEPT ![handlers[h].email] =
                              WriteRateLimit(@, handlers[h])]
    /\ handlers' = [handlers EXCEPT ![h].pc = "s_invalidate"]
    /\ history' = [history EXCEPT
                       !.allowed[handlers[h].email] =
                           NoteWritten(@, handlers[h],
                                       otp_rate_limits'[handlers[h].email]),
                       !.unwritten[handlers[h].email] =
                           @ \/ otp_rate_limits'[handlers[h].email] = Null]
    /\ UNCHANGED <<clock, otp_codes, users, outbox, counters, draw, cleanup>>

\* The invalidating update left out: every row stays as it is.
KeepOutstanding(codes, e) == codes

\* The update without its filter on email.
InvalidateEveryone(codes, e) ==
    [i \in 1..Len(codes) |->
        IF ~codes[i].used THEN [codes[i] EXCEPT !.used = TRUE] ELSE codes[i]]

\* update otp_codes set used = true where email = e and used = false
InvalidateOutstanding(codes, e) ==
    [i \in 1..Len(codes) |->
        IF codes[i].email = e /\ ~codes[i].used
        THEN [codes[i] EXCEPT !.used = TRUE]
        ELSE codes[i]]

\* The plaintexts of the unused codes of an identifier.
Outstanding(codes, e) ==
    {codes[i].otp_hash.sha256 :
        i \in {j \in 1..Len(codes) : codes[j].email = e /\ ~codes[j].used}}

SendInvalidate(h) ==
    /\ At(h, "s_invalidate")
    /\ handlers' = [handlers EXCEPT ![h].pc = "s_insert",
                       ![h].invalidated = Outstanding(otp_codes, handlers[h].email)]
    /\ otp_codes' = InReach(InvalidateOutstanding(otp_codes, handlers[h].email),
                            handlers')
    /\ UNCHANGED <<clock, otp_rate_limits, users, outbox, counters, history, draw, cleanup>>

\* The row the handler inserts.  created_at defaults to the store's now(),
\* which grows with every insert: a row's place in otp_codes stands for it.
NewCodeRow(handler, otp, id) ==
    [ id |-> id,
      email |-> handler.email,
      otp_hash |-> hashOTP(otp),
      expires_at |-> handler.now + OtpTtlMs,
      used |-> FALSE,
      attempts |-> 0 ]

\* The history of an identifier when a code is inserted for it.
NoteInserted(hist, row, otp) ==
    [hist EXCEPT
        !.epoch[row.email] =
            [ otp |-> otp, expires_at |-> row.expires_at, delivered |-> FALSE,
              wrong |-> 0, right |-> 0, lost |-> FALSE ],
        !.latest[row.email] = [otp |-> otp, lost |-> FALSE]]

\* generateOTP, hashOTP and the insert into otp_codes.
SendInsertCode(h, x, insertError) ==
    /\ At(h, "s_insert")
    /\ IF insertError
       THEN /\ handlers' = [handlers EXCEPT ![h] = Response(@, 500, SendError)]
            /\ UNCHANGED <<otp_codes, history>>
       ELSE LET row == NewCodeRow(handlers[h], generateOTP(x),
                                  FreshId(otp_codes, handlers))
            IN  /\ otp_codes' = Append(otp_codes, row)
                /\ handlers' = [handlers EXCEPT ![h].pc = "s_deliver",
                                                ![h].otp = generateOTP(x)]
                /\ history' = NoteInserted(history, row, generateOTP(x))
    /\ UNCHANGED <<clock, otp_rate_limits, users, outbox, counters, draw, cleanup>>

DeliveryOutcomes == {"sent", "no_api_key", "send_error"}

IssuedBody ==
    [ success |-> TRUE,
      message |-> "If this email is registered, you will receive a verification code.",
      expiresIn |-> OTP_EXPIRY_MINUTES * 60 ]

\* The history of an identifier when an issue request is answered 200.
NoteIssued(hist, handler) ==
    LET e == handler.email
        superseded == handler.invalidated
    IN  [hist EXCEPT
            !.epoch[e] = IF @ # Null /\ @.otp = handler.otp
                         THEN [@ EXCEPT !.delivered = TRUE] ELSE @,
            !.superseded[e] = @ \cup superseded]

\* The response built whatever the Delivery collaborator answered.
DeliverResultAlways200(handler, outcome) ==
    Response([handler EXCEPT !.emailResponse = outcome], 200, IssuedBody)

\* The answer with identifiers without an account told so.
DeliverResultKnownOnly(handler, outcome) ==
    IF outcome # "sent"
    THEN Response([handler EXCEPT !.emailResponse = outcome], 500, SendError)
    ELSE IF handler.email \in users
    THEN Response([handler EXCEPT !.emailResponse = outcome], 200, IssuedBody)
    ELSE Response([handler EXCEPT !.emailResponse = outcome], 404,
                  [error |-> "No account for this email"])

\* The response after the RESEND_API_KEY test and resend.emails.send: the
\* success response, or the throw that the catch block answers.
DeliverResult(handler, outcome) ==
    IF outcome = "sent"
    THEN Response([handler EXCEPT !.emailResponse = outcome], 200, IssuedBody)
    ELSE Response([handler EXCEPT !.emailResponse = outcome], 500, SendError)

\* otp_codes after the catch block of send-otp: it logs and answers, and
\* makes no store operation.
Catch(codes, handler) == codes

\* RESEND_API_KEY, resend.emails.send and the success response.
SendDeliver(h, outcome) ==
    /\ At(h, "s_deliver")
    /\ handlers' = [handlers EXCEPT ![h] = DeliverResult(handlers[h], outcome)]
    /\ IF outcome = "sent"
       THEN /\ outbox' = [count |-> outbox.count + 1,
                          last |-> [to |-> handlers[h].email,
                                    otp |-> handlers[h].otp]]
            /\ history' = NoteIssued(history, handlers[h])
            /\ UNCHANGED otp_codes
       ELSE /\ otp_codes' = Catch(otp_codes, handlers[h])
            /\ UNCHANGED <<outbox, history>>
    /\ UNCHANGED <<clock, otp_rate_limits, users, counters, draw, cleanup>>

----------------------------------------------------------------------------
(* verify-otp *)

VerifyError == [error |-> "Verification failed. Please try again."]

InvalidRequestBody == [error |-> "Invalid verification request"]

InvalidFormatBody == [error |-> "Invalid verification code format"]

InvalidOrExpiredBody == [error |-> "Invalid or expired verification code"]

ExpiredBody ==
    [error |-> "Verification code has expired. Please request a new one."]

LockedOutBody == [error |-> "Too many failed attempts. Please request a new code."]

\* The body with the failed attempt left out of the count.
MismatchBodyBeforeCount(attempts) ==
    LET remainingAttempts == MAX_VERIFICATION_ATTEMPTS - attempts IN
    [ error |-> "Invalid verification code",
      remainingAttempts |-> IF remainingAttempts > 0 THEN remainingAttempts ELSE 0 ]

\* remainingAttempts > 0 ? remainingAttempts : 0
MismatchBody(attempts) ==
    LET remainingAttempts == MAX_VERIFICATION_ATTEMPTS - attempts - 1 IN
    [ error |-> "Invalid verification code",
      remainingAttempts |-> IF remainingAttempts > 0 THEN remainingAttempts ELSE 0 ]

\* req.json(), the log line and the two format checks.
VerifyValidateResult(handler, email, otp) ==
    LET h0 == [handler EXCEPT !.fn = "verify-otp",
                              !.req = [email |-> email, otp |-> otp]]
    IN  IF substringThrows(email)
        THEN Response(h0, 500, VerifyError)
        ELSE IF falsy(email) \/ email.type # "string" \/ ~isValidEmail(email.value)
        THEN Response(h0, 400, InvalidRequestBody)
        ELSE IF falsy(otp) \/ otp.type # "string" \/ ~isValidOTP(otp.value)
        THEN Response(h0, 400, InvalidFormatBody)
        ELSE [h0 EXCEPT !.pc = "v_fetch", !.email = normalize(email.value),
                        !.otp = otp.value]

\* A verify-otp request arrives.  With cap.capVerifies the specification lets
\* cap.verifies well-formed requests in.
VerifyValidate(h, email, otp, cap) ==
    /\ At(h, "idle")
    /\ LET next == VerifyValidateResult(handlers[h], email, otp)
           counted == next.pc # "done" /\ cap.capVerifies
       IN  /\ counted => verified < cap.verifies
           /\ handlers' = [handlers EXCEPT ![h] = next]
           /\ verified' = IF counted THEN verified + 1 ELSE verified
    /\ UNCHANGED <<clock, store, issued, history, draw, cleanup>>

\* The select with the order ascending.
OldestActiveIds(codes, e) ==
    LET unused == {i \in 1..Len(codes) : codes[i].email = e /\ ~codes[i].used}
    IN  {i \in unused : \A j \in unused : j >= i}

\* The places in otp_codes of the rows the select returns: the unused rows of
\* the identifier, ordered by created_at descending, limit 1.
ActiveIds(codes, e) ==
    LET unused == {i \in 1..Len(codes) : codes[i].email = e /\ ~codes[i].used}
    IN  {i \in unused : \A j \in unused : j <= i}

\* The fetch of the most recent unused row.  fetchError is set when the
\* store fails (failed) and when .single() finds no row (PGRST116); either
\* way the request is answered 400 and nothing is held.
VerifyFetch(h, failed) ==
    /\ At(h, "v_fetch")
    /\ IF failed
       THEN handlers' = [handlers EXCEPT ![h] =
                           Response([@ EXCEPT !.fetchError = "failed"],
                                    400, InvalidOrExpiredBody)]
       ELSE IF ActiveIds(otp_codes, handlers[h].email) = {}
       THEN handlers' = [handlers EXCEPT ![h] =
                           Response([@ EXCEPT !.fetchError = "PGRST116"],
                                    400, InvalidOrExpiredBody)]
       ELSE \E i \in ActiveIds(otp_codes, handlers[h].email) :
              handlers' = [handlers EXCEPT ![h].pc = "v_check",
                                           ![h].otpRecord = otp_codes[i]]
    /\ UNCHANGED <<clock, store, counters, history, draw, cleanup>>

\* The checks with the attempt limit tested before the expiry.
CheckBranchLimitFirst(otpRecord, otp, now) ==
    IF otpRecord.attempts >= MAX_VERIFICATION_ATTEMPTS THEN "locked"
    ELSE IF now > otpRecord.expires_at THEN "expired"
    ELSE IF hashOTP(otp) # otpRecord.otp_hash THEN "mismatch"
    ELSE "match"

\* The checks without the comparison of the digests.
CheckBranchNoCompare(otpRecord, otp, now) ==
    IF now > otpRecord.expires_at THEN "expired"
    ELSE IF otpRecord.attempts >= MAX_VERIFICATION_ATTEMPTS THEN "locked"
    ELSE "match"

\* The checks without the attempt limit.
CheckBranchNoLimit(otpRecord, otp, now) ==
    IF now > otpRecord.expires_at THEN "expired"
    ELSE IF hashOTP(otp) # otpRecord.otp_hash THEN "mismatch"
    ELSE "match"

\* The check that decides the request, with now = new Date(): expiry, then
\* the attempt limit, then the comparison of the two digests.
CheckBranch(otpRecord, otp, now) ==
    IF now > otpRecord.expires_at THEN "expired"
    ELSE IF otpRecord.attempts >= MAX_VERIFICATION_ATTEMPTS THEN "locked"
    ELSE IF hashOTP(otp) # otpRecord.otp_hash THEN "mismatch"
    ELSE "match"

VerifyCheck(h, now) ==
    /\ At(h, "v_check")
    /\ now >= clock
    /\ clock' = now
    /\ handlers' = [handlers EXCEPT ![h].pc = "v_write", ![h].now = now,
                       ![h].branch = CheckBranch(handlers[h].otpRecord,
                                                 handlers[h].otp, now)]
    /\ UNCHANGED <<store, counters, history, draw, cleanup>>

\* The update that marks a row used left out.
KeepUnused(codes, id) == codes

\* update otp_codes set used = true where id = otpRecord.id
MarkUsed(codes, id) ==
    [i \in 1..Len(codes) |->
        IF codes[i].id = id THEN [codes[i] EXCEPT !.used = TRUE] ELSE codes[i]]

\* update otp_codes set attempts = otpRecord.attempts + 1 where id = otpRecord.id
RecordFailedAttempt(codes, otpRecord) ==
    [i \in 1..Len(codes) |->
        IF codes[i].id = otpRecord.id
        THEN [codes[i] EXCEPT !.attempts = otpRecord.attempts + 1]
        ELSE codes[i]]

VerifyMarkExpired(h) ==
    /\ At(h, "v_write")
    /\ handlers[h].branch = "expired"
    /\ otp_codes' = MarkUsed(otp_codes, handlers[h].otpRecord.id)
    /\ handlers' = [handlers EXCEPT ![h] = Response(@, 400, ExpiredBody)]
    /\ UNCHANGED <<clock, otp_rate_limits, users, outbox, counters, history, draw, cleanup>>

VerifyLockOut(h) ==
    /\ At(h, "v_write")
    /\ handlers[h].branch = "locked"
    /\ otp_codes' = MarkUsed(otp_codes, handlers[h].otpRecord.id)
    /\ handlers' = [handlers EXCEPT ![h] = Response(@, 429, LockedOutBody)]
    /\ UNCHANGED <<clock, otp_rate_limits, users, outbox, counters, history, draw, cleanup>>

VerifyMismatch(h) ==
    /\ At(h, "v_write")
    /\ handlers[h].branch = "mismatch"
    /\ otp_codes' = RecordFailedAttempt(otp_codes, handlers[h].otpRecord)
    /\ handlers' = [handlers EXCEPT ![h] =
          Response(@, 400, MismatchBody(handlers[h].otpRecord.attempts))]
    /\ UNCHANGED <<clock, otp_rate_limits, users, outbox, counters, history, draw, cleanup>>

VerifyConsume(h) ==
    /\ At(h, "v_write")
    /\ handlers[h].branch = "match"
    /\ otp_codes' = MarkUsed(otp_codes, handlers[h].otpRecord.id)
    /\ handlers' = [handlers EXCEPT ![h].pc = "v_resolve"]
    /\ UNCHANGED <<clock, otp_rate_limits, users, outbox, counters, history, draw, cleanup>>

UserIdOf(e) == [user |-> e]

\* The handler with the errors of the collaborator not looked at.
ResolveResultNoThrow(handler, error, pc) == [handler EXCEPT !.pc = pc]

\* The handler after a call of account resolution whose error the code
\* tests: on its way to the next call, or answered by the catch block after
\* the throw.
ResolveResult(handler, error, pc) ==
    IF error THEN Response(handler, 500, VerifyError)
    ELSE [handler EXCEPT !.pc = pc]

\* supabase.auth.admin.listUsers() and the search of its first page for the
\* identifier.  listed: the call has answered and the page holds every
\* account; otherwise existingUser is undefined, as for an identifier without
\* an account.
VerifyListUsers(h, listed) ==
    /\ At(h, "v_resolve")
    /\ handlers' = [handlers EXCEPT ![h].pc =
          IF listed /\ handlers[h].email \in users THEN "v_session" ELSE "v_create"]
    /\ UNCHANGED <<clock, store, counters, history, draw, cleanup>>

\* Existing user: the first generateLink (sessionError), then
\* userId = existingUser.id.
VerifySessionLink(h, error) ==
    /\ At(h, "v_session")
    /\ handlers' = [handlers EXCEPT ![h] =
          ResolveResult([@ EXCEPT !.userId = IF error THEN @ ELSE UserIdOf(handlers[h].email)],
                        error, "v_update")]
    /\ UNCHANGED <<clock, store, counters, history, draw, cleanup>>

\* Existing user: updateUserById, its result not looked at.
VerifyUpdateUser(h) ==
    /\ At(h, "v_update")
    /\ handlers' = [handlers EXCEPT ![h].pc = "v_signin"]
    /\ UNCHANGED <<clock, store, counters, history, draw, cleanup>>

\* Existing user: the second generateLink (signInError).
VerifySignInLink(h, error) ==
    /\ At(h, "v_signin")
    /\ handlers' = [handlers EXCEPT ![h] = ResolveResult(@, error, "v_link")]
    /\ UNCHANGED <<clock, store, counters, history, draw, cleanup>>

\* New user: createUser (createError), which also fails when the identifier
\* has an account by now; then userId = newUser.user.id.
VerifyCreateUser(h, error) ==
    /\ At(h, "v_create")
    /\ LET refused == error \/ handlers[h].email \in users IN
        /\ users' = IF refused THEN users ELSE users \cup {handlers[h].email}
        /\ handlers' = [handlers EXCEPT ![h] =
              ResolveResult([@ EXCEPT !.userId = IF refused THEN @ ELSE UserIdOf(handlers[h].email)],
                            refused, "v_profile")]
    /\ UNCHANGED <<clock, otp_codes, otp_rate_limits, outbox, counters, history, draw, cleanup>>

\* New user: the insert into profiles, its result not looked at.
VerifyInsertProfile(h) ==
    /\ At(h, "v_profile")
    /\ handlers' = [handlers EXCEPT ![h].pc = "v_link"]
    /\ UNCHANGED <<clock, store, counters, history, draw, cleanup>>

\* The last generateLink (linkError).
VerifyAuthLink(h, error) ==
    /\ At(h, "v_link")
    /\ handlers' = [handlers EXCEPT ![h] = ResolveResult(@, error, "v_cleanup")]
    /\ UNCHANGED <<clock, store, counters, history, draw, cleanup>>

\* token and actionLink, which the collaborator supplies, are left out.
VerifiedBody(userId) ==
    [ success |-> TRUE, message |-> "Verification successful", userId |-> userId ]

\* The rate limits with the delete left out.
KeepRateLimit(limits, e) == limits

\* delete from otp_rate_limits where email = e.
DeleteRateLimit(limits, e) == [limits EXCEPT ![e] = Null]

\* The quota of an identifier after a successful verification: no request
\* since, and the end of the window in which the identifier stood at the cap
\* (0 if it did not).
NoteQuotaReset(window, now) ==
    [ asked |-> 0,
      until |-> IF window # Null /\ window.requests = MAX_REQUESTS_PER_WINDOW
                      /\ now < window.opened + WindowMs
                THEN window.opened + WindowMs ELSE 0 ]

\* delete from otp_rate_limits where email = normalizedEmail, and success.
VerifyCleanup(h) ==
    /\ At(h, "v_cleanup")
    /\ otp_rate_limits' = DeleteRateLimit(otp_rate_limits, handlers[h].email)
    /\ handlers' = [handlers EXCEPT ![h] =
                       Response(@, 200, VerifiedBody(handlers[h].userId))]
    /\ history' = [history EXCEPT
                       !.quota[handlers[h].email] =
                           NoteQuotaReset(history.window[handlers[h].email], clock),
                       !.window[handlers[h].email] = Null,
                       !.allowed[handlers[h].email] = <<>>,
                       !.unwritten[handlers[h].email] = FALSE]
    /\ UNCHANGED <<clock, otp_codes, users, outbox, counters, draw, cleanup>>

\* The history of an identifier when a verify request whose code matched
\* has been answered 500: its plaintext is lost.
NoteLost(hist, handler) ==
    IF handler.branch = "match" /\ handler.status = 500
    THEN [hist EXCEPT
             !.lost[handler.email] = @ \cup {handler.otp},
             !.latest[handler.email] =
                 IF @ # Null /\ @.otp = handler.otp
                 THEN [@ EXCEPT !.lost = TRUE] ELSE @]
    ELSE hist

\* The history of an identifier when a well-formed verify request has been
\* answered: one more request with the plaintext of the code inserted last
\* (lost, if it matched and account resolution then failed), or one more
\* with another plaintext.  A request whose select the store failed has
\* reached no row and is not recorded.
NoteVerified(hist, handler) ==
    IF handler.fn # "verify-otp" \/ handler.email = <<>> THEN hist
    ELSE IF handler.fetchError = "failed" THEN hist
    ELSE IF hist.epoch[handler.email] = Null THEN NoteLost(hist, handler)
    ELSE IF handler.otp = hist.epoch[handler.email].otp
    THEN [NoteLost(hist, handler) EXCEPT
             !.epoch[handler.email].right = 1,
             !.epoch[handler.email].lost =
                 @ \/ (handler.branch = "match" /\ handler.status = 500)]
    ELSE [NoteLost(hist, handler) EXCEPT !.epoch[handler.email].wrong =
             IF @ < MAX_VERIFICATION_ATTEMPTS THEN @ + 1 ELSE @]

\* What an issue request that arrived in a world left behind: its handler
\* (the world aside), the rows of its identifier and the mail it sent.
Left(handler, codes, limits, box) ==
    [ handler |-> [handler EXCEPT !.world = "none"],
      codes |-> RowsOf(codes, handler.email),
      limit |-> limits[handler.email],
      mail |-> IF handler.emailResponse = "sent" THEN box.last ELSE Null ]

\* The history when a request is answered: what the last issue request that
\* arrived in the world "anon" left behind.
NoteAnswered(hist, handler, codes, limits, box) ==
    IF handler.world = "anon"
    THEN [hist EXCEPT !.anon = Left(handler, codes, limits, box)]
    ELSE hist

\* The response leaves; the invocation ends.
Respond(h) ==
    /\ handlers[h].pc = "done"
    /\ handlers' = [handlers EXCEPT ![h] = Idle]
    /\ otp_codes' = InReach(otp_codes, handlers')
    /\ history' = NoteAnswered(NoteVerified(history, handlers[h]), handlers[h],
                               otp_codes, otp_rate_limits, outbox)
    /\ UNCHANGED <<clock, otp_rate_limits, users, outbox, counters, draw, cleanup>>

----------------------------------------------------------------------------
(* Outside the two functions *)

\* supabase.auth.signUp and signInWithOtp of the sign-up pages: the
\* identifier gets an account without a verify-otp request.
SignUp(e) ==
    /\ Delivered
    /\ e \notin users
    /\ users' = users \cup {e}
    /\ UNCHANGED <<clock, otp_codes, otp_rate_limits, outbox, handlers, counters,
                   history, draw, cleanup>>

\* INTERVAL '1 hour' and INTERVAL '10 minutes'
CleanupCodeAgeMs == 60 * 60 * 1000
CleanupLimitAgeMs == 10 * 60 * 1000

\* delete from otp_codes where expires_at < now - 1 hour
DeleteExpiredCodes(codes, now) ==
    LET Kept(row) == ~(row.expires_at < now - CleanupCodeAgeMs)
    IN  SelectSeq(codes, Kept)

\* delete from otp_rate_limits where first_request_at < now - 10 minutes
DeleteOldRateLimits(limits, now) ==
    [e \in DOMAIN limits |->
        IF limits[e] # Null /\ limits[e].first_request_at < now - CleanupLimitAgeMs
        THEN Null ELSE limits[e]]

\* public.cleanup_expired_otps() is called and runs its first statement: the
\* DELETE on otp_codes, with NOW() = now, the start of the transaction.
CleanupOtpCodes(now) ==
    /\ Delivered
    /\ cleanup = Null
    /\ now >= clock
    /\ clock' = now
    /\ cleanup' = [now |-> now]
    /\ otp_codes' = DeleteExpiredCodes(otp_codes, now)
    /\ UNCHANGED <<otp_rate_limits, users, outbox, handlers, counters, history,
                   draw>>

\* The second statement, on its own snapshot and with the same NOW(): the
\* DELETE on otp_rate_limits; the function returns.
CleanupRateLimits ==
    /\ Delivered
    /\ cleanup # Null
    /\ cleanup' = Null
    /\ otp_rate_limits' = DeleteOldRateLimits(otp_rate_limits, cleanup.now)
    /\ UNCHANGED <<clock, otp_codes, users, outbox, handlers, counters, history,
                   draw>>

\* public.cleanup_expired_otps() with NOW() = now: one of its statements.
CleanupExpiredOtps(now) == CleanupOtpCodes(now) \/ CleanupRateLimits

\* The identifiers that sign up on the pages, and the instants at which the
\* cleanup runs.  Nothing synchronises the cleanup with the handlers: each of
\* its statements runs between any two of their steps, and their steps run
\* between its statements.
SignUpEmails == {EmailA}
CleanupInstants == {LateInstant}

\* One step taken outside the handlers.
SignUps(cap) == \E e \in cap.signUps : SignUp(e)

Cleanups(cap) == \E now \in cap.cleanups : CleanupExpiredOtps(now)

Outside(cap) == SignUps(cap) \/ Cleanups(cap)

----------------------------------------------------------------------------
(* Specifications *)

\* One step of handler h, its inputs drawn from cap.
Step(h, cap) ==
    \/ \E email \in cap.emails : SendValidate(h, email, cap)
    \/ \E rateLimitError \in BOOLEAN : SendFetchRateLimit(h, rateLimitError)
    \/ \E now \in cap.instants \cup {clock} : SendCheckRateLimit(h, now)
    \/ SendWriteRateLimit(h)
    \/ SendInvalidate(h)
    \/ \E x \in cap.randoms, insertError \in BOOLEAN : SendInsertCode(h, x, insertError)
    \/ \E outcome \in DeliveryOutcomes : SendDeliver(h, outcome)
    \/ \E email \in cap.emails, otp \in cap.otps : VerifyValidate(h, email, otp, cap)
    \/ \E failed \in BOOLEAN : VerifyFetch(h, failed)
    \/ \E now \in cap.instants \cup {clock} : VerifyCheck(h, now)
    \/ VerifyMarkExpired(h)
    \/ VerifyLockOut(h)
    \/ VerifyMismatch(h)
    \/ VerifyConsume(h)
    \/ \E listed \in BOOLEAN : VerifyListUsers(h, listed)
    \/ \E error \in BOOLEAN : VerifySessionLink(h, error)
    \/ VerifyUpdateUser(h)
    \/ \E error \in BOOLEAN : VerifySignInLink(h, error)
    \/ \E error \in BOOLEAN : VerifyCreateUser(h, error)
    \/ VerifyInsertProfile(h)
    \/ \E error \in BOOLEAN : VerifyAuthLink(h, error)
    \/ VerifyCleanup(h)

\* Requests handled one after another, in one handler slot.
SeqCap ==
    [ emails |-> CoreEmails, otps |-> CoreOtps,
      randoms |-> OtpRandoms, instants |-> Instants, issues |-> MaxIssues,
      capVerifies |-> FALSE, verifies |-> 0, twin |-> FALSE,
      signUps |-> SignUpEmails, cleanups |-> CleanupInstants ]

SeqNext == Step(1, SeqCap) \/ Respond(1) \/ Outside(SeqCap)

SeqSpec == Init /\ [][SeqNext]_vars

\* Requests handled one after another at one instant for one identifier,
\* with the two codes generateOTP draws and issue requests enough to retire
\* a code and to retire the one that replaced it.
ReissueCap ==
    [ emails |-> RaceEmails, otps |-> {Str(generateOTP(x)) : x \in OtpRandoms},
      randoms |-> OtpRandoms, instants |-> {0}, issues |-> MaxReissueIssues,
      capVerifies |-> FALSE, verifies |-> 0, twin |-> FALSE,
      signUps |-> SignUpEmails, cleanups |-> CleanupInstants ]

ReissueNext == Step(1, ReissueCap) \/ Respond(1) \/ Outside(ReissueCap)

ReissueSpec == Init /\ [][ReissueNext]_vars

\* A store that one issue request and n verify requests with a wrong code
\* leave behind.
AfterWrongCodes(n) ==
    LET otp == generateOTP(ToUint32(0))
        row == [NewCodeRow([Idle EXCEPT !.email = EmailA, !.now = 0], otp, 1)
                   EXCEPT !.attempts = n]
    IN  /\ clock = 0
        /\ otp_codes = <<row>>
        /\ otp_rate_limits =
              [e \in Identifiers |->
                  IF e = EmailA
                  THEN [ request_count |-> 1, first_request_at |-> 0,
                         last_request_at |-> 0 ]
                  ELSE Null]
        /\ users = {}
        /\ outbox = [count |-> 1, last |-> [to |-> EmailA, otp |-> otp]]
        /\ handlers = [h \in Handlers |-> Idle]
        /\ issued = 1
        /\ verified = 0
        /\ draw = Null
        /\ cleanup = Null
        /\ history =
              [NoHistory EXCEPT
                  !.window[EmailA] = [opened |-> 0, requests |-> 1],
                  !.allowed[EmailA] = <<[at |-> 0, first |-> 0]>>,
                  !.epoch[EmailA] =
                      [ otp |-> otp, expires_at |-> row.expires_at,
                        delivered |-> TRUE,
                        wrong |-> n, right |-> 0,
                        lost |-> FALSE ],
                  !.latest[EmailA] = [otp |-> otp, lost |-> FALSE]]

\* An outstanding code one failed attempt short of the limit.
OneShortOfLimit == AfterWrongCodes(MAX_VERIFICATION_ATTEMPTS - 1)

\* An outstanding code at the limit.
AtTheLimit == AfterWrongCodes(MAX_VERIFICATION_ATTEMPTS)

\* Where the specifications that let few verify requests in start: the empty
\* store or OneShortOfLimit, so that two requests reach the attempt limit.
RaceInit == Init \/ OneShortOfLimit

\* Where the specifications that let one verify request in start: the empty
\* store, or AtTheLimit, so that the request is locked out.
RateInit == Init \/ AtTheLimit

\* Requests handled one after another, with issue requests enough to fill a
\* rate-limit window and to pass it.
RateCap ==
    [ emails |-> RaceEmails, otps |-> RaceOtps, randoms |-> RaceRandoms,
      instants |-> RateInstants, issues |-> MaxRateIssues, capVerifies |-> TRUE,
      verifies |-> MaxRateVerifies, twin |-> FALSE,
      signUps |-> SignUpEmails, cleanups |-> CleanupInstants ]

RateNext == Step(1, RateCap) \/ Respond(1) \/ Outside(RateCap)

RateSpec == RateInit /\ [][RateNext]_vars

\* Requests handled one after another, with every request body of the model.
InputCap ==
    [ emails |-> EmailInputs, otps |-> OtpInputs, randoms |-> RaceRandoms,
      instants |-> RaceInstants, issues |-> MaxInputIssues, capVerifies |-> TRUE,
      verifies |-> MaxInputVerifies, twin |-> FALSE,
      signUps |-> SignUpEmails, cleanups |-> CleanupInstants ]

InputNext == Step(1, InputCap) \/ Respond(1) \/ Outside(InputCap)

InputSpec == RaceInit /\ [][InputNext]_vars

TwinCap ==
    [ emails |-> CoreEmails, otps |-> RaceOtps, randoms |-> OtpRandoms,
      instants |-> Instants, issues |-> MaxTwinIssues, capVerifies |-> TRUE,
      verifies |-> MaxTwinVerifies, twin |-> TRUE,
      signUps |-> SignUpEmails, cleanups |-> CleanupInstants ]

TwinNext == Step(1, TwinCap) \/ Respond(1) \/ Outside(TwinCap)

\* Requests handled one at a time, with the issue requests that arrive for an
\* identifier without rows noted for comparison across worlds.
TwinSpec == RaceInit /\ [][TwinNext]_vars

PairCap ==
    [ emails |-> {Str(EmailA), Str(EmailB)}, otps |-> RaceOtps,
      randoms |-> RaceRandoms, instants |-> RaceInstants,
      issues |-> MaxPairIssues, capVerifies |-> TRUE,
      verifies |-> MaxPairVerifies, twin |-> FALSE,
      signUps |-> SignUpEmails, cleanups |-> CleanupInstants ]

PairNext ==
    (\E h \in Handlers : Step(h, PairCap) \/ Respond(h)) \/ Outside(PairCap)

\* Concurrent requests for two identifiers; one verify request is let in, and
\* the start at AtTheLimit has it locked out.
PairSpec == RateInit /\ [][PairNext]_vars

\* Handlers interleave at every await.
RaceCap ==
    [ emails |-> RaceEmails, otps |-> RaceOtps, randoms |-> RaceRandoms,
      instants |-> RaceInstants, issues |-> MaxRaceIssues, capVerifies |-> TRUE,
      verifies |-> MaxRaceVerifies, twin |-> FALSE,
      signUps |-> SignUpEmails, cleanups |-> CleanupInstants ]

Next == (\E h \in Handlers : Step(h, RaceCap) \/ Respond(h)) \/ Outside(RaceCap)

Spec == RaceInit /\ [][Next]_vars

----------------------------------------------------------------------------
(* The vocabulary of the properties *)

\* The places in otp_codes of the unused rows of an identifier.
Unused(e) == {i \in 1..Len(otp_codes) : otp_codes[i].email = e /\ ~otp_codes[i].used}

\* A row with the id is stored.
Exists(id) == \E i \in 1..Len(otp_codes) : otp_codes[i].id = id

\* The stored row with an id that a handler holds, where one is stored.
Stored(id) == otp_codes[CHOOSE i \in 1..Len(otp_codes) : otp_codes[i].id = id]

\* A run of the cleanup has come late enough to delete a code row with this
\* expires_at, a rate-limit row with this first_request_at.
CodeCleaned(expires_at) == expires_at < clock - CleanupCodeAgeMs
LimitCleaned(first_request_at) == first_request_at < clock - CleanupLimitAgeMs

\* The row that a handler fetched is used now, or the cleanup has deleted it.
Retired(row) ==
    IF Exists(row.id) THEN Stored(row.id).used ELSE CodeCleaned(row.expires_at)

\* The identifier has no rate-limit row: the update of a request found the
\* row deleted, or the cleanup has deleted the row that a request wrote with
\* this first_request_at.
LimitGone(e, first_request_at) ==
    /\ otp_rate_limits[e] = Null
    /\ history.unwritten[e] \/ LimitCleaned(first_request_at)

\* The rate-limit row that the last write of an issue request left to the
\* identifier is there, unless the cleanup has come late enough to delete
\* it.
LimitKept(e) ==
    LET log == history.allowed[e] IN
        (/\ log # <<>>
         /\ log[Len(log)].first >= 0
         /\ ~LimitCleaned(log[Len(log)].first)) =>
            /\ otp_rate_limits[e] # Null
            /\ otp_rate_limits[e].first_request_at = log[Len(log)].first

\* A handler that has answered a send-otp request.
IssueDone(h) == handlers[h].pc = "done" /\ handlers[h].fn = "send-otp"

\* A handler that has answered a verify-otp request, of whatever form.
VerifyDone(h) == handlers[h].pc = "done" /\ handlers[h].fn = "verify-otp"

\* A handler that has answered a well-formed verify-otp request whose select
\* the store answered (with a row or with none).
VerifyAnswered(h) ==
    /\ VerifyDone(h)
    /\ handlers[h].email \in Identifiers
    /\ handlers[h].fetchError # "failed"

\* A request body that the validation is to refuse.
MalformedRequest(fn, req) ==
    \/ req.email \in MalformedEmails
    \/ fn = "verify-otp" /\ req.otp \in MalformedOtps

\* The instant of a request: the one its handler read, or else the last one
\* any handler read (a handler that reads no clock may run at once).
RequestTime(handler) == IF handler.now >= 0 THEN handler.now ELSE clock

\* Where a handler is during account resolution.
ResolvePcs ==
    {"v_resolve", "v_session", "v_update", "v_signin", "v_create", "v_profile",
     "v_link"}

\* A handler that has passed the comparison of the digests.
Accepted(h) ==
    /\ handlers[h].branch = "match"
    /\ handlers[h].pc \in ResolvePcs \cup {"v_cleanup", "done"}

----------------------------------------------------------------------------
(* C1 *)

\* An issue request has been allowed and has made its write, or has been
\* refused by the rate limiter.
Limited(h) ==
    /\ handlers[h].fn = "send-otp"
    /\ \/ handlers[h].pc \in {"s_invalidate", "s_insert", "s_deliver"}
       \/ IssueDone(h) /\ handlers[h].status = 429

\* The request is counted in the window it falls in: allowed, it is one of
\* the first three of the window and the rate-limit row (unless a later run
\* of the cleanup has deleted it) holds their number and the opening of the
\* window; refused, three were allowed in the window before it, and it is
\* told to wait until the window ends.
Counted(h) ==
        LET handler == handlers[h]
            e == handler.email
            window == history.window[e]
            left == (window.opened + WindowMs) - handler.now
        IN  /\ (handler.fn = "send-otp"
                    /\ handler.pc \in {"s_invalidate", "s_insert", "s_deliver"}) =>
                /\ window.requests \in 1..MAX_REQUESTS_PER_WINDOW
                /\ \/ /\ otp_rate_limits[e] # Null
                      /\ otp_rate_limits[e].request_count = window.requests
                      /\ otp_rate_limits[e].first_request_at = window.opened
                   \/ /\ otp_rate_limits[e] = Null
                      /\ LimitCleaned(window.opened)
            /\ (IssueDone(h) /\ handler.status = 429) =>
                /\ window # Null
                /\ window.requests = MAX_REQUESTS_PER_WINDOW
                /\ left > 0
                /\ handler.body.retryAfter * 1000 >= left
                /\ (handler.body.retryAfter - 1) * 1000 < left
                /\ handler.body.retryAfter > 0
                /\ handler.body.retryAfter <= RATE_LIMIT_WINDOW_MINUTES * 60

\* C1, as the specification states it: with requests handled one after
\* another, the issue requests allowed inside one 10-minute window are
\* counted 1, 2, 3 in request_count, with first_request_at the opening of the
\* window; a request is refused, with HTTP 429, exactly when three were
\* allowed in the window it falls in, and its retryAfter is the number of
\* seconds, rounded up, until first_request_at + 10 minutes, so
\* 0 < retryAfter <= 600.
C1_RateLimitWindow == \A h \in Handlers : Limited(h) => Counted(h)

----------------------------------------------------------------------------
(* C2 *)

\* C2, as the specification states it: in every reachable state, under any
\* interleaving of the handlers, an identifier has at most one unused row.
C2_AtMostOneUnused == \A e \in Identifiers : Cardinality(Unused(e)) <= 1

\* C2, amended: in every reachable state, under any interleaving of the
\* handlers in which no two send-otp requests of an identifier have been at
\* work at the same time, the identifier has at most one unused row.
C2_AtMostOneUnusedSerial ==
    \A e \in Identifiers : ~history.overlapped[e] => Cardinality(Unused(e)) <= 1

\* A second issue request has put its code in place of the first while a
\* verify-otp handler that fetched the first code is still at work.
C2_Witness ==
    \E h, g \in Handlers :
        /\ handlers[h].pc = "s_deliver"
        /\ handlers[g].pc = "v_write"
        /\ handlers[g].otpRecord.used = FALSE
        /\ Exists(handlers[g].otpRecord.id)
        /\ Stored(handlers[g].otpRecord.id).used
        /\ ~history.overlapped[handlers[h].email]
        /\ Cardinality(Unused(handlers[h].email)) = 1

----------------------------------------------------------------------------
(* C3 *)

\* C3: under any interleaving of verify-otp handlers, at most one handler
\* passes the comparison of the digests and goes on to account resolution
\* for one otp_codes row.
C3_AcceptedAtMostOnce ==
    \A h, g \in Handlers :
        (h # g /\ Accepted(h) /\ Accepted(g)) =>
            handlers[h].otpRecord.id # handlers[g].otpRecord.id

----------------------------------------------------------------------------
(* C4 *)

\* The code that the last issue request of the handler's identifier mailed,
\* while no issue request has arrived since; Null if there is none.
IssuedCode(h) ==
    LET epoch == history.epoch[handlers[h].email]
    IN  IF epoch # Null /\ epoch.delivered THEN epoch ELSE Null

\* A verify-otp request with the plaintext of the issued code has been
\* answered; first tells whether it is the first such request.
VerifiedIssued(h, first) ==
    /\ VerifyAnswered(h)
    /\ IssuedCode(h) # Null
    /\ handlers[h].otp = IssuedCode(h).otp
    /\ first <=> IssuedCode(h).right = 0

\* The first such request, made before expiry and after fewer than
\* MAX_VERIFICATION_ATTEMPTS requests with another plaintext.
VerifiedInTime(h) ==
    /\ VerifiedIssued(h, TRUE)
    /\ IssuedCode(h).wrong < MAX_VERIFICATION_ATTEMPTS
    /\ RequestTime(handlers[h]) <= IssuedCode(h).expires_at

\* C4, as the specification states it: with requests handled one at a time,
\* after an issue request succeeds, the first verify request with the issued
\* plaintext, made before expiry and with fewer than 5 failed attempts, is
\* answered 200 with a userId, and every later verify request with the same
\* plaintext and no issue request in between is answered 400, invalid or
\* expired.
C4_VerifiesExactlyOnce ==
    \A h \in Handlers :
        /\ VerifiedInTime(h) =>
              /\ handlers[h].status = 200
              /\ handlers[h].body.userId = UserIdOf(handlers[h].email)
        /\ VerifiedIssued(h, FALSE) =>
              /\ handlers[h].status = 400
              /\ handlers[h].body = InvalidOrExpiredBody

\* C4, amended: the first such verify request whose select the store answers
\* consumes the code and is answered 200 with a userId if account resolution
\* succeeds and 500 if it fails; every later one is answered 400, invalid or
\* expired.
C4_ConsumesExactlyOnce ==
    \A h \in Handlers :
        /\ VerifiedInTime(h) =>
              /\ Accepted(h)
              /\ Retired(handlers[h].otpRecord)
              /\ \/ /\ handlers[h].status = 200
                    /\ handlers[h].body.userId = UserIdOf(handlers[h].email)
                 \/ /\ handlers[h].status = 500
                    /\ handlers[h].body = VerifyError
        /\ VerifiedIssued(h, FALSE) =>
              /\ handlers[h].status = 400
              /\ handlers[h].body = InvalidOrExpiredBody

\* The issued code has been verified and an account made; the same plaintext
\* comes again before expiry and is refused.
C4_Witness ==
    \E h \in Handlers :
        /\ VerifiedIssued(h, FALSE)
        /\ handlers[h].email \in users
        /\ IssuedCode(h).wrong = 0
        /\ clock <= IssuedCode(h).expires_at
        /\ handlers[h].status = 400

----------------------------------------------------------------------------
(* C5 *)

\* A verify-otp request has been answered whose plaintext is that of a code
\* which was unused when a successful issue request of the identifier
\* retired it.
VerifiedSuperseded(h) ==
    /\ VerifyAnswered(h)
    /\ handlers[h].otp \in history.superseded[handlers[h].email]

\* C5, as the specification states it: after an issue request succeeds while
\* an earlier code of the identifier is unused, every verify request with the
\* plaintext of the earlier code is answered 400 and never succeeds.
C5_PriorCodeRejected ==
    \A h \in Handlers : VerifiedSuperseded(h) => handlers[h].status = 400

\* The plaintext of the request is that of the code inserted last for the
\* identifier, and no verify request has lost that code.
Regenerated(h) ==
    /\ history.latest[handlers[h].email] # Null
    /\ history.latest[handlers[h].email].otp = handlers[h].otp
    /\ ~history.latest[handlers[h].email].lost

\* The request was refused: it did not pass the comparison and was answered
\* 400, or 429 with a row fetched that has five failed attempts.
Refused(h) ==
    /\ ~Accepted(h)
    /\ handlers[h].status \in {400, 429}
    /\ handlers[h].status = 429 =>
          /\ handlers[h].otpRecord # Null
          /\ handlers[h].otpRecord.attempts >= MAX_VERIFICATION_ATTEMPTS

\* C5, amended: such a verify request, whenever it comes, never passes the
\* comparison and is answered 400, or 429 if the code then outstanding has
\* five failed attempts, unless the same plaintext has been generated again
\* for the identifier by the issue request that retired it or by a later one.
C5_PriorCodeRejectedUnlessReissued ==
    \A h \in Handlers :
        (VerifiedSuperseded(h) /\ ~Regenerated(h)) => Refused(h)

\* The earlier code is tried after a third issue request, against the code
\* of that request, which is still unused.
C5_Witness ==
    \E h \in Handlers :
        /\ VerifiedSuperseded(h)
        /\ ~Regenerated(h)
        /\ issued = MaxReissueIssues
        /\ handlers[h].otp \notin Outstanding(otp_codes, handlers[h].email)
        /\ handlers[h].otpRecord # Null
        /\ handlers[h].otpRecord.otp_hash # hashOTP(handlers[h].otp)
        /\ handlers[h].status = 400
        /\ handlers[h].body = MismatchBody(0)

----------------------------------------------------------------------------
(* C6 *)

\* A verify-otp request has been answered after MAX_VERIFICATION_ATTEMPTS
\* requests with a wrong plaintext came for the code inserted last, and no
\* issue request since.
VerifiedAfterLimit(h) ==
    /\ VerifyAnswered(h)
    /\ history.epoch[handlers[h].email] # Null
    /\ history.epoch[handlers[h].email].wrong >= MAX_VERIFICATION_ATTEMPTS

\* C6: once 5 wrong codes have been submitted against a row, every later
\* verify request of the identifier, until a new issue request, is refused
\* (400 or 429), the correct plaintext before expiry included; none passes the
\* comparison.
C6_LockedOutForGood ==
    \A h \in Handlers :
        VerifiedAfterLimit(h) =>
            /\ handlers[h].status \in {400, 429}
            /\ ~Accepted(h)

\* The correct plaintext comes before expiry, after five wrong ones, and is
\* refused.
C6_Witness ==
    \E h \in Handlers :
        /\ VerifiedAfterLimit(h)
        /\ handlers[h].otp = history.epoch[handlers[h].email].otp
        /\ history.epoch[handlers[h].email].right = 0
        /\ handlers[h].now >= 0
        /\ handlers[h].now <= history.epoch[handlers[h].email].expires_at
        /\ handlers[h].status = 429

----------------------------------------------------------------------------
(* C7 *)

\* A verify-otp request has been answered that fetched an active row and then
\* read an instant after the row's expires_at.
VerifiedExpired(h) ==
    /\ VerifyDone(h)
    /\ handlers[h].otpRecord # Null
    /\ handlers[h].now > handlers[h].otpRecord.expires_at

\* C7: with requests handled one at a time, a verify request that finds an
\* active row with now > expires_at is answered 400, expired, and leaves the
\* row used (if the cleanup has not deleted it), whatever the code and the
\* attempts; it compares no digest and leaves attempts as they were.
C7_ExpiredIsRefused ==
    \A h \in Handlers :
        VerifiedExpired(h) =>
            /\ handlers[h].status = 400
            /\ handlers[h].body = ExpiredBody
            /\ Retired(handlers[h].otpRecord)
            /\ Exists(handlers[h].otpRecord.id) =>
                  Stored(handlers[h].otpRecord.id).attempts =
                      handlers[h].otpRecord.attempts
            /\ handlers[h].branch = "expired"

\* The correct plaintext comes for a row without failed attempts, too late.
C7_Witness ==
    \E h \in Handlers :
        /\ VerifiedExpired(h)
        /\ handlers[h].otpRecord.otp_hash = hashOTP(handlers[h].otp)
        /\ handlers[h].otpRecord.attempts = 0
        /\ handlers[h].status = 400

----------------------------------------------------------------------------
(* C8 *)

\* C8: a request with a malformed email, and a verify request with a code
\* that is not exactly 6 digits, is refused in the step that receives it,
\* before any store access: no row of otp_rate_limits or otp_codes is made
\* or changed, and no email is sent.
C8_MalformedTouchesNothing ==
    [][\A h \in Handlers :
          (handlers[h].pc = "idle" /\ handlers'[h].pc # "idle"
                /\ MalformedRequest(handlers'[h].fn, handlers'[h].req)) =>
              /\ handlers'[h].pc = "done"
              /\ handlers'[h].status \in {400, 500}
              /\ UNCHANGED store]_vars

\* A malformed code has been refused while a code is outstanding.
C8_Witness ==
    \E h \in Handlers :
        /\ VerifyDone(h)
        /\ handlers[h].req.email \in WellFormedEmails
        /\ handlers[h].req.otp \in MalformedOtps
        /\ Unused(normalize(handlers[h].req.email.value)) # {}
        /\ handlers[h].otpRecord = Null

----------------------------------------------------------------------------
(* C9 *)

\* C9: every request whose email is missing, is no string or fails the
\* syntax check, and every verify request whose otp is missing, is no string
\* or is not 6 digits, is answered 400 and never 500.
C9_MalformedIs400 ==
    \A h \in Handlers :
        (handlers[h].pc = "done"
              /\ MalformedRequest(handlers[h].fn, handlers[h].req)) =>
            handlers[h].status = 400

----------------------------------------------------------------------------
(* C10 *)

\* The status that the first failing check of verify-otp gives; with every
\* check passed the request is left to account resolution.
FirstFailure(handler) ==
    IF MalformedRequest(handler.fn, handler.req) THEN {400}
    ELSE IF handler.otpRecord = Null THEN {400}
    ELSE IF handler.now > handler.otpRecord.expires_at THEN {400}
    ELSE IF handler.otpRecord.attempts >= MAX_VERIFICATION_ATTEMPTS THEN {429}
    ELSE IF handler.otpRecord.otp_hash # hashOTP(handler.otp) THEN {400}
    ELSE {200, 500}

\* C10: verify-otp checks the format, the active row, the expiry, the attempt
\* limit and the digest in that order, and its status follows from the first
\* check that fails: 400 for malformed input, no active row, an expired row
\* or a mismatch; 429 exactly for an unexpired row with attempts >= 5; 200
\* only for a match on an unexpired row with attempts < 5 whose account
\* resolution succeeds; 500 otherwise.
C10_StatusFollowsChecks ==
    \A h \in Handlers :
        VerifyDone(h) =>
            /\ handlers[h].status \in FirstFailure(handlers[h])
            /\ handlers[h].status = 200 => handlers[h].userId # Null

----------------------------------------------------------------------------
(* C11 *)

\* C11: send-otp answers 200 with success: true and expiresIn = 300 only if
\* the rate limiter allowed the request, the new row was inserted (it is
\* there, unless the cleanup has come late enough to delete it) and the
\* Delivery collaborator reported no error; when delivery fails or the API
\* key is not configured the answer is the generic 500, never success.
C11_SuccessOnlyIfDelivered ==
    \A h \in Handlers :
        IssueDone(h) =>
            /\ handlers[h].status = 200 =>
                  /\ handlers[h].body = IssuedBody
                  /\ handlers[h].body.expiresIn = 300
                  /\ handlers[h].rlOp \in {"insert", "increment", "reset"}
                  /\ \/ \E i \in Unused(handlers[h].email) :
                           otp_codes[i].otp_hash = hashOTP(handlers[h].otp)
                     \/ CodeCleaned(handlers[h].now + OtpTtlMs)
                  /\ handlers[h].emailResponse = "sent"
                  /\ outbox.last = [to |-> handlers[h].email, otp |-> handlers[h].otp]
            /\ handlers[h].emailResponse \in {"no_api_key", "send_error"} =>
                  /\ handlers[h].status = 500
                  /\ handlers[h].body = SendError

\* The row is in place and the Delivery collaborator reports an error.
C11_Witness ==
    \E h \in Handlers :
        /\ IssueDone(h)
        /\ handlers[h].emailResponse = "send_error"
        /\ Unused(handlers[h].email) # {}
        /\ handlers[h].status = 500

----------------------------------------------------------------------------
(* C12 *)

\* A verify-otp request has been answered whose code matched and whose
\* account resolution then failed.
AccountFailed(h) ==
    /\ VerifyDone(h)
    /\ Accepted(h)
    /\ handlers[h].userId = Null

\* A verify-otp request has been answered that came with the plaintext of the
\* code inserted last, after that code was lost to a failed account
\* resolution, and no issue request since.
VerifiedLost(h) ==
    /\ VerifyAnswered(h)
    /\ history.epoch[handlers[h].email] # Null
    /\ history.epoch[handlers[h].email].lost
    /\ handlers[h].otp = history.epoch[handlers[h].email].otp

\* A verify-otp request has been answered that came with a plaintext lost
\* earlier to a failed account resolution.
VerifiedLostBefore(h) ==
    /\ VerifyAnswered(h)
    /\ handlers[h].otp \in history.lost[handlers[h].email]

\* C12: with requests handled one at a time, if the submitted code matches
\* and the Account/Session collaborator then fails, verify-otp answers 500,
\* the row is used already, the rate-limit row that the issue requests left
\* to the identifier is still there, and every later verify request with the
\* same plaintext is refused.
C12_LostForGood ==
    \A h \in Handlers :
        /\ AccountFailed(h) =>
              /\ handlers[h].status = 500
              /\ handlers[h].body = VerifyError
              /\ Retired(handlers[h].otpRecord)
              /\ LimitKept(handlers[h].email)
        /\ VerifiedLostBefore(h) => ~Accepted(h)

\* C12, amended: as above, with every later verify request with the same
\* plaintext refused, by 400 or, if the code then outstanding has five failed
\* attempts, by 429, until a later issue request inserts that plaintext
\* again; before the next issue request the answer is 400.
C12_LostCode ==
    \A h \in Handlers :
        /\ AccountFailed(h) =>
              /\ handlers[h].status = 500
              /\ handlers[h].body = VerifyError
              /\ Retired(handlers[h].otpRecord)
              /\ history.window[handlers[h].email] # Null
              /\ LimitKept(handlers[h].email)
              /\ (/\ otp_rate_limits[handlers[h].email] # Null
                  /\ ~history.unwritten[handlers[h].email]) =>
                    otp_rate_limits[handlers[h].email].request_count =
                        history.window[handlers[h].email].requests
        /\ (VerifiedLostBefore(h) /\ ~Regenerated(h)) => Refused(h)
        /\ VerifiedLost(h) =>
              /\ handlers[h].status = 400
              /\ handlers[h].body = InvalidOrExpiredBody
              /\ ~Accepted(h)

\* The lost code comes again after a later issue request has inserted another
\* code and five wrong codes have been counted against that one: 429.
C12_Witness ==
    \E h \in Handlers :
        /\ VerifiedLostBefore(h)
        /\ ~Regenerated(h)
        /\ history.latest[handlers[h].email] # Null
        /\ history.latest[handlers[h].email].otp # handlers[h].otp
        /\ handlers[h].status = 429

----------------------------------------------------------------------------
(* C13 *)

\* An issue request of the handler has passed the rate-limit check, or was
\* refused by it, as one of the first MAX_REQUESTS_PER_WINDOW requests for
\* its identifier since the last successful verification.
AskedAfterVerified(h) ==
    /\ handlers[h].fn = "send-otp"
    /\ handlers[h].now >= 0
    /\ history.quota[handlers[h].email] # Null
    /\ history.quota[handlers[h].email].asked \in 1..MAX_REQUESTS_PER_WINDOW

\* C13: with requests handled one at a time, a successful verify-otp request
\* leaves no otp_rate_limits row for the identifier, and each of the next
\* three issue requests for it is allowed, the first of them inserting a row
\* with request_count = 1, whatever the count was before the verification.
C13_VerifiedResetsQuota ==
    \A h \in Handlers :
        LET handler == handlers[h]
            e == handler.email
        IN  /\ (VerifyDone(h) /\ handler.status = 200) =>
                   otp_rate_limits[e] = Null
            /\ AskedAfterVerified(h) =>
                /\ handler.status # 429
                /\ handler.rlOp \in {"insert", "increment", "reset"}
                /\ history.quota[e].asked = 1 => handler.rlOp = "insert"
                /\ handler.pc # "s_rl_write" =>
                    \/ /\ otp_rate_limits[e] # Null
                       /\ otp_rate_limits[e].request_count
                             \in 1..history.quota[e].asked
                       /\ history.quota[e].asked = 1 =>
                             otp_rate_limits[e].first_request_at = handler.now
                    \/ LimitGone(e, handler.now)

\* The identifier stood at the cap when the verification succeeded, and the
\* third issue request after it is allowed inside the window that was running
\* then.
C13_Witness ==
    \E h \in Handlers :
        /\ AskedAfterVerified(h)
        /\ history.quota[handlers[h].email].asked = MAX_REQUESTS_PER_WINDOW
        /\ handlers[h].now < history.quota[handlers[h].email].until
        /\ handlers[h].pc = "s_deliver"
        /\ otp_rate_limits[handlers[h].email] # Null
        /\ otp_rate_limits[handlers[h].email].request_count = MAX_REQUESTS_PER_WINDOW

----------------------------------------------------------------------------
(* C14 *)

\* the first_request_at it left.
Written(log) == SelectSeq(log, LAMBDA entry : entry.first >= 0)


----------------------------------------------------------------------------
(* C15 *)

\* The issue request of the handler has come to the rate-limit check and
\* found a row whose first_request_at is 10 minutes or more before now.
FoundElapsedWindow(h) ==
    /\ handlers[h].fn = "send-otp"
    /\ handlers[h].now >= 0
    /\ handlers[h].rateLimit # Null
    /\ handlers[h].now - handlers[h].rateLimit.first_request_at >= WindowMs

\* The rate-limit row of the handler's identifier is the one a reset at the
\* handler's instant writes.
ResetWritten(h) ==
    /\ otp_rate_limits[handlers[h].email] # Null
    /\ otp_rate_limits[handlers[h].email].request_count = 1
    /\ otp_rate_limits[handlers[h].email].first_request_at = handlers[h].now
    /\ otp_rate_limits[handlers[h].email].last_request_at = handlers[h].now

\* C15, as the specification states it: with requests handled one at a time,
\* an issue request that finds a rate-limit row whose first_request_at is 10
\* minutes or more in the past is allowed, whatever the count of the row, and
\* its write leaves request_count = 1 and first_request_at = now (until a
\* later run of the cleanup deletes the row it wrote).
C15_ElapsedWindowResets ==
    \A h \in Handlers :
        FoundElapsedWindow(h) =>
            /\ handlers[h].status # 429
            /\ handlers[h].rlOp = "reset"
            /\ handlers[h].pc # "s_rl_write" =>
                \/ ResetWritten(h)
                \/ /\ otp_rate_limits[handlers[h].email] = Null
                   /\ LimitCleaned(handlers[h].now)

----------------------------------------------------------------------------
(* C16 *)

\* A well-formed verify-otp request has been refused because no unused code
\* was found, or the code found had expired, or the submitted code did not
\* match the digest of the code found.
RefusedUniformly(h) ==
    /\ VerifyDone(h)
    /\ ~MalformedRequest(handlers[h].fn, handlers[h].req)
    /\ handlers[h].status = 400
    /\ \/ handlers[h].otpRecord = Null
       \/ handlers[h].branch \in {"expired", "mismatch"}

\* C16: verify-otp answers with one and the same status and body, 'Invalid
\* or expired verification code' and no other field, when there is no active
\* code for the identifier, when the active code has expired and when the
\* submitted code does not match.
C16_OneRefusalBody ==
    \A h \in Handlers :
        RefusedUniformly(h) => handlers[h].body = InvalidOrExpiredBody

----------------------------------------------------------------------------
(* C17 *)

\* What an issue request is given: its body, the instant it reads, the code
\* it draws and the answer of the Delivery collaborator.
Given(handler) ==
    <<handler.req, handler.now, handler.otp, handler.emailResponse>>

\* An issue request has been answered that arrived for an identifier with an
\* account and without rows, and was given what an earlier issue request was
\* given that arrived for an identifier without an account and without rows.
AnsweredInBothWorlds(h) ==
    /\ IssueDone(h)
    /\ handlers[h].world = "known"
    /\ history.anon # Null
    /\ Given(handlers[h]) = Given(history.anon.handler)
    /\ ~LimitCleaned(handlers[h].now)

\* C17: with requests handled one at a time, two issue requests that are
\* given the same and differ only in whether the identifier has an account
\* are answered with the same status and body and leave the same rows in
\* otp_rate_limits and otp_codes and the same mail.
C17_IssueIgnoresAccounts ==
    \A h \in Handlers :
        AnsweredInBothWorlds(h) =>
            Left(handlers[h], otp_codes, otp_rate_limits, outbox) = history.anon

\* The identifier has an account and the request is answered 200, as it was
\* when the identifier had none.
C17_Witness ==
    \E h \in Handlers :
        /\ AnsweredInBothWorlds(h)
        /\ handlers[h].email \in users
        /\ handlers[h].status = 200
        /\ history.anon.handler.status = 200
        /\ Len(history.anon.codes) = 1

----------------------------------------------------------------------------
(* C18 *)

\* The identifier the handler acts for in a step: the one of the request it
\* takes up, or the one of the request it is handling.
ActsFor(h) ==
    IF handlers[h].pc = "idle" THEN handlers'[h].email ELSE handlers[h].email

\* C18: a step of a send-otp or verify-otp request for one identifier leaves
\* the otp_rate_limits row and the otp_codes rows of every other identifier
\* as they are, takes what it reads from the rows of its own identifier, and
\* sends mail to its own identifier only.
C18_OtherIdentifiersUntouched ==
    [][\A h \in Handlers :
          handlers'[h] # handlers[h] =>
              /\ \A b \in Identifiers \ {ActsFor(h)} :
                    /\ otp_rate_limits'[b] = otp_rate_limits[b]
                    /\ RowsOf(otp_codes', b) =
                          IF handlers'[h].pc = "idle"
                          THEN InReach(RowsOf(otp_codes, b), handlers')
                          ELSE RowsOf(otp_codes, b)
              /\ \A g \in Handlers \ {h} : handlers'[g] = handlers[g]
              /\ handlers'[h].otpRecord # Null =>
                    /\ handlers'[h].otpRecord.email = ActsFor(h)
                    /\ \/ handlers'[h].otpRecord = handlers[h].otpRecord
                       \/ \E i \in 1..Len(otp_codes) :
                             handlers'[h].otpRecord = otp_codes[i]
              /\ handlers'[h].rateLimit # Null =>
                    \/ handlers'[h].rateLimit = handlers[h].rateLimit
                    \/ handlers'[h].rateLimit = otp_rate_limits[ActsFor(h)]
              /\ outbox' # outbox => outbox'.last.to = ActsFor(h)
    ]_vars

\* A code is on its way to one identifier while a verify-otp request of
\* another identifier, which has a rate-limit row and a code of its own, is
\* at its comparison.
C18_Witness ==
    \E h, g \in Handlers :
        /\ handlers[h].fn = "send-otp"
        /\ handlers[h].pc = "s_deliver"
        /\ handlers[g].fn = "verify-otp"
        /\ handlers[g].pc = "v_write"
        /\ handlers[g].email \in Identifiers \ {handlers[h].email}
        /\ otp_rate_limits[handlers[g].email] # Null
        /\ otp_rate_limits[handlers[h].email] # Null

----------------------------------------------------------------------------
(* C19 *)

\* C19: with requests handled one at a time, a send-otp request whose read
\* of the rate-limit row fails with an error other than PGRST116 is answered
\* 500 with the generic body at once: it generates and stores no code, marks
\* none used, sends no mail and leaves otp_rate_limits as it is.
C19_FailClosed ==
    [][\A h \in Handlers :
          handlers'[h].rateLimitError =>
              /\ handlers'[h].pc = "done"
              /\ handlers'[h].status = 500
              /\ handlers'[h].body = SendError
              /\ handlers'[h].otp = <<>>
              /\ handlers'[h].rlOp = "none"
              /\ handlers'[h].emailResponse = "none"
              /\ otp_codes' = otp_codes
              /\ otp_rate_limits' = otp_rate_limits
              /\ outbox' = outbox
    ]_vars

\* The read fails while the identifier has an unused code and a rate-limit
\* row; both are still there when the request is answered.
C19_Witness ==
    \E h \in Handlers :
        /\ IssueDone(h)
        /\ handlers[h].rateLimitError
        /\ handlers[h].status = 500
        /\ Unused(handlers[h].email) # {}
        /\ otp_rate_limits[handlers[h].email] # Null

----------------------------------------------------------------------------
(* C20 *)

\* The digests of the codes generateOTP draws.
GeneratedDigests == {[sha256 |-> generateOTP(x)] : x \in OtpRandoms}

\* The texts of the error and message fields of the responses.
ResponseTexts ==
    { b.error : b \in { SendError, InvalidEmailBody, VerifyError,
                        InvalidRequestBody, InvalidFormatBody,
                        InvalidOrExpiredBody, ExpiredBody, LockedOutBody,
                        MismatchBody(0), ThrottledBody(0, 0) } }
        \cup {IssuedBody.message, VerifiedBody(Null).message}

\* C20: in every reachable state the otp_hash of every otp_codes row is the
\* digest of a generated code, never a plaintext and never a value made from
\* a submitted code, the rows of both tables have no other column that could
\* hold one, the plaintext is in the mail handed to the Delivery collaborator,
\* and the responses carry fixed texts, counts and the user id only.
C20_NoPlaintextStored ==
    /\ \A i \in 1..Len(otp_codes) :
          /\ DOMAIN otp_codes[i] =
                {"id", "email", "otp_hash", "expires_at", "used", "attempts"}
          /\ otp_codes[i].otp_hash \in GeneratedDigests
          /\ otp_codes[i].email \in Identifiers
          /\ otp_codes[i].used \in BOOLEAN
          /\ otp_codes[i].attempts \in 0..MAX_VERIFICATION_ATTEMPTS
          /\ otp_codes[i].expires_at \in Nat
          /\ otp_codes[i].id \in Nat
    /\ \A e \in Identifiers :
          otp_rate_limits[e] # Null =>
              otp_rate_limits[e] \in
                  [request_count : Nat, first_request_at : Nat,
                   last_request_at : Nat]
    /\ users \subseteq Identifiers
    /\ outbox.count > 0 => hashOTP(outbox.last.otp) \in GeneratedDigests
    /\ \A h \in Handlers :
          handlers[h].pc = "done" =>
              /\ DOMAIN handlers[h].body \subseteq
                    {"success", "message", "expiresIn", "error", "retryAfter",
                     "remainingAttempts", "userId"}
              /\ \A f \in DOMAIN handlers[h].body \cap {"error", "message"} :
                    handlers[h].body[f] \in ResponseTexts
              /\ \A f \in DOMAIN handlers[h].body
                            \cap {"expiresIn", "retryAfter", "remainingAttempts"} :
                    handlers[h].body[f] \in Nat
              /\ "userId" \in DOMAIN handlers[h].body =>
                    handlers[h].body.userId = UserIdOf(handlers[h].email)

\* A code that is only ever submitted has been compared with the row of a
\* delivered code and counted as a failed attempt.
C20_Witness ==
    \E h \in Handlers :
        /\ VerifyDone(h)
        /\ handlers[h].branch = "mismatch"
        /\ handlers[h].otp = NeverIssued
        /\ Exists(handlers[h].otpRecord.id)
        /\ Stored(handlers[h].otpRecord.id).attempts =
              handlers[h].otpRecord.attempts + 1
        /\ hashOTP(outbox.last.otp) = Stored(handlers[h].otpRecord.id).otp_hash

----------------------------------------------------------------------------
(* C21 *)

\* C21: with requests handled one at a time, a verify-otp request that finds
\* a mismatch leaves the attempts of the row one higher than it found them,
\* and leaves the row used if the attempts have come to
\* MAX_VERIFICATION_ATTEMPTS.
C21_FifthMismatchLocks ==
    \A h \in Handlers :
        (/\ VerifyDone(h)
         /\ handlers[h].branch = "mismatch"
         /\ Exists(handlers[h].otpRecord.id)) =>
            /\ Stored(handlers[h].otpRecord.id).attempts =
                  handlers[h].otpRecord.attempts + 1
            /\ Stored(handlers[h].otpRecord.id).attempts
                  >= MAX_VERIFICATION_ATTEMPTS =>
                  Stored(handlers[h].otpRecord.id).used

----------------------------------------------------------------------------
(* C22 *)

\* The attempts stored with an id.
AttemptsOf(codes, id) ==
    codes[CHOOSE i \in 1..Len(codes) : codes[i].id = id].attempts

\* C22: under any interleaving of verify-otp requests, the write that follows
\* a failed comparison raises the stored attempts of the row by exactly one,
\* and no step lowers the attempts of a row or takes them past
\* MAX_VERIFICATION_ATTEMPTS, so at most MAX_VERIFICATION_ATTEMPTS wrong
\* codes are compared with one row.
C22_EveryMismatchCounted ==
    [][/\ \A h \in Handlers :
             (/\ handlers[h].pc = "v_write"
              /\ handlers[h].branch = "mismatch"
              /\ handlers'[h].pc = "done"
              /\ Exists(handlers[h].otpRecord.id)) =>
                 AttemptsOf(otp_codes', handlers[h].otpRecord.id) =
                     AttemptsOf(otp_codes, handlers[h].otpRecord.id) + 1
       /\ \A i \in 1..Len(otp_codes), j \in 1..Len(otp_codes') :
             otp_codes'[j].id = otp_codes[i].id =>
                 /\ otp_codes'[j].attempts >= otp_codes[i].attempts
                 /\ otp_codes'[j].attempts <= MAX_VERIFICATION_ATTEMPTS
    ]_vars

----------------------------------------------------------------------------
(* C23 *)

\* No send-otp request for the identifier stands between its rate-limit
\* check and its write.
WritesDone(e) ==
    \A h \in Handlers :
        ~(/\ handlers[h].fn = "send-otp"
          /\ handlers[h].email = e
          /\ handlers[h].pc = "s_rl_write")

\* C23: under any interleaving of send-otp requests for one identifier, at
\* most MAX_REQUESTS_PER_WINDOW requests are allowed in one window, and once
\* the allowed requests have made their writes request_count is in 1..3 and
\* is the number of requests allowed since first_request_at.
C23_EveryRequestCounted ==
    \A e \in Identifiers :
        (otp_rate_limits[e] # Null /\ WritesDone(e)) =>
            /\ history.window[e] # Null
            /\ history.window[e].requests <= MAX_REQUESTS_PER_WINDOW
            /\ otp_rate_limits[e].request_count \in 1..MAX_REQUESTS_PER_WINDOW
            /\ otp_rate_limits[e].request_count = history.window[e].requests
            /\ otp_rate_limits[e].first_request_at = history.window[e].opened

----------------------------------------------------------------------------
(* C24 *)

\* The handler holds a send-otp request that has read now and found a
\* rate-limit row inside its window with request_count at the cap.
Throttled(handler) ==
    /\ handler.fn = "send-otp"
    /\ handler.now >= 0
    /\ handler.rateLimit # Null
    /\ inWindow(handler.rateLimit.first_request_at, handler.now)
    /\ handler.rateLimit.request_count >= MAX_REQUESTS_PER_WINDOW

\* C24: with requests handled one at a time, a send-otp request that finds
\* its identifier at the cap inside the window is answered 429 at once and
\* changes nothing: the rate-limit row, the rows of otp_codes and the outbox
\* are as they were, and the request has generated no code.
C24_ThrottledChangesNothing ==
    [][\A h \in Handlers :
          Throttled(handlers'[h]) =>
              /\ handlers'[h].pc = "done"
              /\ handlers'[h].status = 429
              /\ handlers'[h].rlOp = "none"
              /\ handlers'[h].otp = <<>>
              /\ handlers'[h].emailResponse = "none"
              /\ otp_rate_limits' = otp_rate_limits
              /\ otp_rate_limits'[handlers'[h].email] = handlers'[h].rateLimit
              /\ otp_codes' = otp_codes
              /\ outbox' = outbox
    ]_vars

\* A request is refused while the code issued before it is unused, untried
\* and not expired.
C24_Witness ==
    \E h \in Handlers :
        /\ IssueDone(h)
        /\ Throttled(handlers[h])
        /\ handlers[h].status = 429
        /\ \E i \in Unused(handlers[h].email) :
              /\ otp_codes[i].attempts = 0
              /\ otp_codes[i].expires_at >= clock
              /\ otp_codes[i].otp_hash = hashOTP(outbox.last.otp)

----------------------------------------------------------------------------
(* C25 *)

\* C25: under any interleaving, no step changes used, attempts or otp_hash of
\* a row that is used.
C25_UsedIsTerminal ==
    [][\A i \in 1..Len(otp_codes), j \in 1..Len(otp_codes') :
          (otp_codes[i].used /\ otp_codes'[j].id = otp_codes[i].id) =>
              /\ otp_codes'[j].used
              /\ otp_codes'[j].attempts = otp_codes[i].attempts
              /\ otp_codes'[j].otp_hash = otp_codes[i].otp_hash
    ]_vars

----------------------------------------------------------------------------
(* C26 *)

\* What the request of the handler is charged in request_count.
Charged(handler) ==
    IF handler.rlOp = "increment" THEN handler.rateLimit.request_count + 1 ELSE 1

\* A send-otp request has been answered after its mail failed.
DeliveryFailed(h) ==
    /\ IssueDone(h)
    /\ handlers[h].emailResponse \in {"no_api_key", "send_error"}

\* The first_request_at of the row that the write of the request leaves.
Opened(handler) ==
    IF handler.rlOp = "increment"
    THEN handler.rateLimit.first_request_at ELSE handler.now

\* C26: with requests handled one at a time, when the mail of a send-otp
\* request fails its row is the one unused row of the identifier, with
\* attempts = 0 and its expiry OTP_EXPIRY_MINUTES after now, the codes the
\* request invalidated are still used, and request_count is what the request
\* found plus one (1 in a new window); so is a retry whose mail fails
\* again.  The cleanup may since have deleted the rows, each at its age.
C26_NoRollBack ==
    \A h \in Handlers :
        LET handler == handlers[h]
            e == handler.email
        IN  DeliveryFailed(h) =>
                /\ \/ Cardinality(Unused(e)) = 1
                   \/ Unused(e) = {} /\ CodeCleaned(handler.now + OtpTtlMs)
                /\ \A i \in Unused(e) :
                      /\ otp_codes[i].otp_hash = hashOTP(handler.otp)
                      /\ otp_codes[i].attempts = 0
                      /\ otp_codes[i].expires_at = handler.now + OtpTtlMs
                /\ \/ /\ otp_rate_limits[e] # Null
                      /\ otp_rate_limits[e].request_count = Charged(handler)
                   \/ /\ otp_rate_limits[e] = Null
                      /\ LimitCleaned(Opened(handler))

----------------------------------------------------------------------------
(* C27 *)

\* Where the row with an id stands in otp_codes, which is in the order of
\* created_at.
IndexOf(codes, id) == CHOOSE i \in 1..Len(codes) : codes[i].id = id

\* C27: under any interleaving, the row a verify-otp request fetches is the
\* unused row of its identifier created last, the branch it takes is the one
\* that row, the submitted code and now give, and none of its steps changes
\* another row.
C27_NewestRowOnly ==
    [][\A h \in Handlers :
          (handlers[h].fn = "verify-otp" /\ handlers'[h] # handlers[h]
              /\ handlers'[h].pc # "idle") =>
              /\ handlers[h].pc = "v_fetch" /\ handlers'[h].otpRecord # Null =>
                    \E i \in Unused(handlers[h].email) :
                        /\ handlers'[h].otpRecord = otp_codes[i]
                        /\ \A j \in Unused(handlers[h].email) : j <= i
              /\ handlers[h].pc = "v_check" =>
                    handlers'[h].branch =
                        CheckBranch(handlers[h].otpRecord, handlers[h].otp,
                                    handlers'[h].now)
              /\ Len(otp_codes') = Len(otp_codes)
              /\ \A i \in 1..Len(otp_codes) :
                    \/ otp_codes'[i] = otp_codes[i]
                    \/ /\ handlers[h].otpRecord # Null
                       /\ otp_codes[i].id = handlers[h].otpRecord.id
    ]_vars

\* A verify-otp request has been answered on the newer of two unused rows of
\* its identifier and has changed it; the older row is still unused and
\* untried.
C27_Witness ==
    \E h \in Handlers :
        /\ VerifyDone(h)
        /\ handlers[h].otpRecord # Null
        /\ Exists(handlers[h].otpRecord.id)
        /\ Stored(handlers[h].otpRecord.id) # handlers[h].otpRecord
        /\ \E i \in Unused(handlers[h].email) :
              /\ i < IndexOf(otp_codes, handlers[h].otpRecord.id)
              /\ otp_codes[i].attempts = 0

----------------------------------------------------------------------------
(* C28 *)

\* C28: with requests handled one at a time, the answer to a mismatch against
\* a row with attempts a, 0 <= a <= 4, carries remainingAttempts =
\* MAX_VERIFICATION_ATTEMPTS - (a + 1), which is the maximum minus the
\* attempts stored after the write, and is in 0..4.
C28_RemainingAttempts ==
    \A h \in Handlers :
        (VerifyDone(h) /\ handlers[h].branch = "mismatch") =>
            /\ handlers[h].otpRecord.attempts \in 0..(MAX_VERIFICATION_ATTEMPTS - 1)
            /\ handlers[h].status = 400
            /\ handlers[h].body.remainingAttempts =
                  MAX_VERIFICATION_ATTEMPTS - (handlers[h].otpRecord.attempts + 1)
            /\ IF Exists(handlers[h].otpRecord.id)
               THEN handlers[h].body.remainingAttempts =
                        MAX_VERIFICATION_ATTEMPTS
                            - Stored(handlers[h].otpRecord.id).attempts
               ELSE CodeCleaned(handlers[h].otpRecord.expires_at)
            /\ handlers[h].body.remainingAttempts
                  \in 0..(MAX_VERIFICATION_ATTEMPTS - 1)

\* The fifth wrong code is answered with remainingAttempts = 0.
C28_Witness ==
    \E h \in Handlers :
        /\ VerifyDone(h)
        /\ handlers[h].branch = "mismatch"
        /\ handlers[h].otpRecord.attempts = MAX_VERIFICATION_ATTEMPTS - 1
        /\ handlers[h].body.remainingAttempts = 0

(***************************************************************************)
(* generateOTP over the Uint32 values.  array[0] is any of the 2^32 values *)
(* crypto.getRandomValues can write; the values are walked one residue of  *)
(* 900000 at a time: from r, the least value of its class, by steps of     *)
(* 900000 up to the last value that is still a Uint32.                     *)
(***************************************************************************)

\* The residues whose classes are walked: both ends of the range, the two
\* on either side of 2^32 % 900000 = 167296, and some in between.
Residues == {0, 1, 99999, 167295, 167296, 450000, 899998, 899999}

\* The next value after x with the same array[0] % 900000.
NextPreimage(x) == Uint32Add(x, 900000)

\* The number a decimal string writes.
RECURSIVE Number(_)
Number(s) ==
    IF s = <<>> THEN 0
    ELSE LET d == CHOOSE i \in 1..10 : DigitSeq[i] = s[Len(s)]
         IN  10 * Number(SubSeq(s, 1, Len(s) - 1)) + (d - 1)

\* crypto.getRandomValues(array) has written x, the count-th value of the
\* class of residue; first is the count-th value of the class of 0.
Drawn(residue, x, count, first) ==
    [residue |-> residue, x |-> x, count |-> count, first |-> first,
     otp |-> <<>>]

GenInit ==
    /\ clock = 0
    /\ otp_codes = <<>>
    /\ otp_rate_limits = [e \in Identifiers |-> Null]
    /\ users = {}
    /\ outbox = [count |-> 0, last |-> Null]
    /\ handlers = [h \in Handlers |-> Idle]
    /\ issued = 0
    /\ verified = 0
    /\ history = NoHistory
    /\ \E r \in Residues : draw = Drawn(r, ToUint32(r), 1, ToUint32(0))
    /\ cleanup = Null

\* return String(100000 + (array[0] % 900000))
Generate ==
    /\ draw.otp = <<>>
    /\ draw' = [draw EXCEPT !.otp = generateOTP(draw.x)]
    /\ UNCHANGED <<clock, store, handlers, counters, history, cleanup>>

\* The next call, with the next value of the class in array[0].
NextValue ==
    /\ draw.otp # <<>>
    /\ IsUint32(NextPreimage(draw.x))
    /\ draw' = Drawn(draw.residue, NextPreimage(draw.x), draw.count + 1,
                     NextPreimage(draw.first))
    /\ UNCHANGED <<clock, store, handlers, counters, history, cleanup>>

GenNext == Generate \/ NextValue

GenSpec == GenInit /\ [][GenNext]_vars

(***************************************************************************)
(* C29                                                                     *)
(***************************************************************************)

\* x % 900000 = r, by the remainders of both sides modulo 9, 32 and 3125
\* (900000 = 9 * 32 * 3125, and 2^16 is 7, 0 and 3036 modulo these).
SameResidue(x, r) ==
    /\ r \in 0..899999
    /\ r % 9 = (x.hi * 7 + x.lo) % 9
    /\ r % 32 = x.lo % 32
    /\ r % 3125 = (x.hi * 3036 + x.lo) % 3125

\* C29: for every Uint32 x, generateOTP returns the decimal string of
\* 100000 + (x mod 900000): a number in [100000, 999999], written with
\* exactly six digits, which the format check of Verify accepts.
C29_GeneratedCode ==
    (draw # Null /\ draw.otp # <<>>) =>
        LET n == Number(draw.otp)
        IN  /\ IsUint32(draw.x)
            /\ draw.otp = String(n)
            /\ n \in 100000..999999
            /\ n - 100000 = draw.residue
            /\ SameResidue(draw.x, n - 100000)
            /\ Len(draw.otp) = 6
            /\ isValidOTP(draw.otp)

\* generateOTP has run on the largest Uint32, 2^32 - 1.
C29_Witness ==
    /\ draw # Null
    /\ draw.x = Uint32(Radix - 1, Radix - 1)
    /\ draw.otp = <<"2", "6", "7", "2", "9", "5">>

(***************************************************************************)
(* C30                                                                     *)
(***************************************************************************)

\* C30: every code is produced by the same number of Uint32 values: when
\* the values producing one code are used up, so are the values producing
\* the code 100000.
C30_Uniform ==
    (draw # Null /\ draw.otp # <<>> /\ ~IsUint32(NextPreimage(draw.x))) =>
        ~IsUint32(NextPreimage(draw.first))

====
